---- MODULE Spec2Model ----
(***************************************************************************)
(* The dice engine of hypnos: the /roll command (src/src/dice.rs, the      *)
(* glitch-only engine) and the /shimmer command (src/src/sparkle.rs, the   *)
(* engine with shimmer cascades).  Both run the pipeline                   *)
(*     parse -> roll every die -> evaluate -> render                       *)
(* inside get_response.  Strings are TLA+ strings, a die roll's random     *)
(* draws are the nondeterministic inputs of the Draw action.               *)
(*                                                                         *)
(* The image command of hypnos: /gen (src/src/dalle.rs) prices an image    *)
(* request and debits the user's account (src/src/data.rs) under the       *)
(* accounts mutex before it generates anything.                            *)
(*                                                                         *)
(* The get-togethers of hypnos (src/src/main.rs): "!event" posts one,      *)
(* replies to the post set it up, and the task spawned by cache_ready      *)
(* announces it once its time has passed.                                  *)
(*                                                                         *)
(* SpecWide is the /roll command once more, with the numbers of dice.rs at *)
(* the full width of u64: side counts and values up to u64::MAX, and the   *)
(* sums of the evaluations wrapping around or panicking above it.          *)
(***************************************************************************)
EXTENDS Integers, Sequences, FiniteSets, TLC

VARIABLES
    variant,     \* which command runs: "dice" (dice.rs) or "sparkle" (sparkle.rs)
    input,       \* get_response's argument `dice`, the expression text
    pc,          \* position in get_response
    request,     \* the value DiceRollRequest::parse returned
    next_die,    \* DiceRollRequest::roll: index of the die being rolled
    frames,      \* Die::roll: the calls waiting for their bigger_roll, outermost first
    cur,         \* Die::roll: the die the innermost call draws for
    last,        \* the latest finished outermost Die::roll call: die, draws, result
    rolled_die,  \* RollResult.rolled_die
    response,    \* the string get_response returned
    returned,    \* the latest call of a RollResult method made on its own, and its value
    accounts,    \* Data.accounts: the CostMap, user id -> Account
    data_json,   \* the file data.json
    mutex,       \* the holder of the lock on Data.accounts, 0 when it is free
    calls,       \* the invocations of /gen: position, arguments, result
    priced,      \* an ImageRequest and the Cost computed for it
    get_togethers,  \* Handler.get_togethers: message id -> GetTogether
    rwlock,      \* the holder of the write lock on Handler.get_togethers, or "free"
    scanner,     \* the task cache_ready spawns to announce the get-togethers
    messages,    \* the calls of Handler::message: position, text, reference, result
    clock,       \* Local::now()
    sent,        \* message id -> the number of "It's time!" messages sent for it
    channels,    \* notify_time_change and notify_serialize: is a unit queued
    state_file   \* the file data.json of main.rs

\* The variables of the dice engine.
diceVars ==
    <<variant, input, pc, request, next_die, frames, cur, last, rolled_die, response,
      returned>>

\* The variables of the image command.
imageVars == <<accounts, data_json, mutex, calls, priced>>

\* The variables of the get-togethers.
eventVars ==
    <<get_togethers, rwlock, scanner, messages, clock, sent, channels, state_file>>

vars == <<diceVars, imageVars, eventVars>>

----------------------------------------------------------------------------
(* Bounds of the model. *)

\* Most whitespace-separated tokens in an input expression.
MaxTokens == 2

\* Requests with more dice than this are parsed but not rolled by the model.
MaxRoll == 1

\* Most rolls in a RollResult whose methods are called on their own.
MaxRolls == 3

\* The number of invocations of /gen.
MaxCalls == 2

(* Program constants. *)

\* The per-token limit on the number of dice.
MaxCount == 1000000

\* i32::MAX, the largest side count parse::<i32> accepts.
I32Max == 2147483647

\* The credit of a new account, in millicents: "erry body gets 20 bucks".
DefaultCredit == 20 * 100 * 1000

----------------------------------------------------------------------------
(* Strings: the parts of Rust's str used by the parser. *)

Char(s, i) == SubSeq(s, i, i)

\* char::is_whitespace, on the characters the model's strings hold.
IsWhitespace(c) == c \in {" ", "\n", "\t"}

\* The positions where a maximal run of non-whitespace starts.
TokenStarts(s) ==
    {i \in 1..Len(s) : /\ ~IsWhitespace(Char(s, i))
                       /\ i = 1 \/ IsWhitespace(Char(s, i - 1))}

\* The position where the run that holds position i ends.
RECURSIVE TokenEnd(_, _)
TokenEnd(s, i) ==
    IF i = Len(s) \/ IsWhitespace(Char(s, i + 1)) THEN i ELSE TokenEnd(s, i + 1)

\* The runs that start at the given positions, leftmost first.
RECURSIVE TokensFrom(_, _)
TokensFrom(s, starts) ==
    IF starts = {} THEN <<>>
    ELSE LET i == CHOOSE i \in starts : \A j \in starts : i <= j IN
         <<SubSeq(s, i, TokenEnd(s, i))>> \o TokensFrom(s, starts \ {i})

\* str::split_whitespace: the maximal runs of non-whitespace, in order.
split_whitespace(s) == TokensFrom(s, TokenStarts(s))

RECURSIVE TrimStart(_)
TrimStart(s) ==
    IF s # "" /\ IsWhitespace(Char(s, 1)) THEN TrimStart(SubSeq(s, 2, Len(s))) ELSE s

RECURSIVE TrimEnd(_)
TrimEnd(s) ==
    IF s # "" /\ IsWhitespace(Char(s, Len(s)))
    THEN TrimEnd(SubSeq(s, 1, Len(s) - 1))
    ELSE s

\* str::trim
trim(s) == TrimEnd(TrimStart(s))

RECURSIVE FindFrom(_, _, _)
FindFrom(s, c, i) ==
    IF i > Len(s) THEN 0 ELSE IF Char(s, i) = c THEN i ELSE FindFrom(s, c, i + 1)

\* str::find(char): the 1-based index of the first occurrence, 0 for None.
find(s, c) == FindFrom(s, c, 1)

DigitVal(c) ==
    CASE c = "0" -> 0 [] c = "1" -> 1 [] c = "2" -> 2 [] c = "3" -> 3
      [] c = "4" -> 4 [] c = "5" -> 5 [] c = "6" -> 6 [] c = "7" -> 7
      [] c = "8" -> 8 [] c = "9" -> 9 [] OTHER -> -1

ParseErr == [ok |-> FALSE]

\* The digits of s from position i on, accumulated on acc; an overflow past max
\* or a character that is no digit is an error.
RECURSIVE ParseDigits(_, _, _, _)
ParseDigits(s, i, acc, max) ==
    IF i > Len(s)
    THEN [ok |-> TRUE, val |-> acc]
    ELSE LET d == DigitVal(Char(s, i)) IN
         IF d < 0 \/ acc > (max - d) \div 10
         THEN ParseErr
         ELSE ParseDigits(s, i + 1, acc * 10 + d, max)

\* str::parse::<u64>: an optional '+', then one or more digits.  The strings
\* given to it stay far below u64::MAX, so its overflow error is out of reach;
\* the bound passed here is the largest number an integer of TLC holds.
\* parse_u64_full is the same parser at the full width.
parse_u64(s) ==
    LET body == IF s # "" /\ Char(s, 1) = "+" THEN SubSeq(s, 2, Len(s)) ELSE s IN
    IF body = "" THEN ParseErr ELSE ParseDigits(body, 1, 0, I32Max)

\* str::parse::<i32>: an optional sign, then one or more digits, within i32.
parse_i32(s) ==
    LET neg  == s # "" /\ Char(s, 1) = "-"
        sign == s # "" /\ Char(s, 1) \in {"+", "-"}
        body == IF sign THEN SubSeq(s, 2, Len(s)) ELSE s
        r    == ParseDigits(body, 1, 0, I32Max) IN
    IF body = "" \/ ~r.ok THEN ParseErr
    ELSE [ok |-> TRUE, val |-> IF neg THEN 0 - r.val ELSE r.val]

----------------------------------------------------------------------------
(* sparkle.rs: Die. *)

\* enum Die, in declaration order (the derived Ord).
Dice == <<"D4", "D6", "D8", "D10", "D12">>

DieSet == {Dice[i] : i \in 1..Len(Dice)}

\* The position of a die in the enum: the derived PartialOrd/Ord compares these.
Ord(die) == CHOOSE i \in 1..Len(Dice) : Dice[i] = die

\* A conversion that also takes 13.
try_from_Thirteen(value) ==
    CASE value = 4  -> [ok |-> TRUE, die |-> "D4"]
      [] value = 6  -> [ok |-> TRUE, die |-> "D6"]
      [] value = 8  -> [ok |-> TRUE, die |-> "D8"]
      [] value = 10 -> [ok |-> TRUE, die |-> "D10"]
      [] value = 12 -> [ok |-> TRUE, die |-> "D12"]
      [] value = 13 -> [ok |-> TRUE, die |-> "D12"]
      [] OTHER      -> [ok |-> FALSE]

\* impl TryFrom<i32> for Die
try_from(value) ==
    CASE value = 4  -> [ok |-> TRUE, die |-> "D4"]
      [] value = 6  -> [ok |-> TRUE, die |-> "D6"]
      [] value = 8  -> [ok |-> TRUE, die |-> "D8"]
      [] value = 10 -> [ok |-> TRUE, die |-> "D10"]
      [] value = 12 -> [ok |-> TRUE, die |-> "D12"]
      [] OTHER      -> [ok |-> FALSE]

\* Die::sides
sides(self) ==
    CASE self = "D4"  -> 4
      [] self = "D6"  -> 6
      [] self = "D8"  -> 8
      [] self = "D10" -> 10
      [] self = "D12" -> 10

\* A step that passes over the next die.
bump_up_ByTwo(self) ==
    CASE self = "D4"  -> "D8"
      [] self = "D6"  -> "D10"
      [] self = "D8"  -> "D12"
      [] self = "D10" -> "D12"
      [] self = "D12" -> "D12"

\* Die::bump_up
bump_up(self) ==
    CASE self = "D4"  -> "D6"
      [] self = "D6"  -> "D8"
      [] self = "D8"  -> "D10"
      [] self = "D10" -> "D12"
      [] self = "D12" -> "D12"

----------------------------------------------------------------------------
(* The parsers.  None is [some |-> FALSE]; Err(msg) is [ok |-> FALSE, err |-> msg]. *)

None == [some |-> FALSE]

Some(count, die) == [some |-> TRUE, count |-> count, die |-> die]

\* sparkle.rs DiceRollRequest::get_die_count
get_die_count(s) ==
    LET whole == parse_i32(trim(s)) IN
    IF whole.ok
    THEN LET d == try_from(whole.val) IN
         IF d.ok THEN Some(1, d.die) ELSE None
    ELSE LET idx == find(s, "d") IN
         IF idx = 0 THEN None
         ELSE LET count_s == SubSeq(s, 1, idx - 1)
                  sides_s == SubSeq(s, idx + 1, Len(s))
                  count   == IF trim(count_s) = ""
                             THEN [ok |-> TRUE, val |-> 1]
                             ELSE parse_u64(trim(count_s))
                  nsides  == parse_i32(trim(sides_s)) IN
              IF ~count.ok \/ ~nsides.ok THEN None
              ELSE LET d == try_from(nsides.val) IN
                   IF d.ok THEN Some(count.val, d.die) ELSE None

\* dice.rs DiceRollRequest::get_die_count; struct Die { sides: u64 }
dice_get_die_count(s) ==
    LET whole == parse_u64(trim(s)) IN
    IF whole.ok
    THEN Some(1, [sides |-> whole.val])
    ELSE LET idx == find(s, "d") IN
         IF idx = 0 THEN None
         ELSE LET count_s == SubSeq(s, 1, idx - 1)
                  sides_s == SubSeq(s, idx + 1, Len(s))
                  count   == IF trim(count_s) = ""
                             THEN [ok |-> TRUE, val |-> 1]
                             ELSE parse_u64(trim(count_s))
                  nsides  == parse_u64(trim(sides_s)) IN
              IF ~count.ok \/ ~nsides.ok THEN None
              ELSE Some(count.val, [sides |-> nsides.val])

\* A message that leaves the token out.
ExpectedMsg_NoToken(s) == "Expected XdY, e.g. 3d6 or 1d8"

\* format!("Expected {} to be like XdY, e.g. 3d6 or 1d8", s)
ExpectedMsg(s) == "Expected " \o s \o " to be like XdY, e.g. 3d6 or 1d8"

TooManyMsg == "Hey buddy, I'm just a demigod, that's too many dice!"

(* A Vec<Die> is written as its runs: <<[die |-> d1, n |-> n1], ...>> is n1      *)
(* copies of d1, then n2 copies of d2, and so on, with every n at least 1 and  *)
(* neighbouring runs of different dice, so that equal vectors are written      *)
(* alike.  A request of 1,000,000 dice is then one run.                        *)

RECURSIVE VecLen(_)
VecLen(runs) == IF runs = <<>> THEN 0 ELSE Head(runs).n + VecLen(Tail(runs))

\* dice[i], counted from 1.
RECURSIVE VecAt(_, _)
VecAt(runs, i) == IF i <= Head(runs).n THEN Head(runs).die ELSE VecAt(Tail(runs), i - Head(runs).n)

\* count pushes of die onto the vector.
Pushes(dice, count, die) ==
    IF count = 0 THEN dice
    ELSE IF dice # <<>> /\ dice[Len(dice)].die = die
    THEN [dice EXCEPT ![Len(dice)].n = @ + count]
    ELSE Append(dice, [die |-> die, n |-> count])

\* A loop that pushes one copy too many: for _ in 0..=count.
PushCopies_Inclusive(dice, count, die) == Pushes(dice, count + 1, die)

\* for _ in 0..count { dice.push(die) }
PushCopies(dice, count, die) == Pushes(dice, count, die)

\* The limit tested with >= in place of >.
too_many_AtLimit(count) == count >= MaxCount

\* if count > 1_000_000 (sparkle.rs line 178, dice.rs line 91)
too_many(count) == count > MaxCount

\* sparkle.rs DiceRollRequest::parse: the loop over the tokens from the i-th on.
RECURSIVE ParseLoop(_, _, _)
ParseLoop(toks, i, dice) ==
    IF i > Len(toks) THEN [ok |-> TRUE, dice |-> dice]
    ELSE IF trim(toks[i]) = "" THEN ParseLoop(toks, i + 1, dice)
    ELSE LET r == get_die_count(toks[i]) IN
         IF ~r.some THEN [ok |-> FALSE, err |-> ExpectedMsg(toks[i])]
         ELSE IF too_many(r.count) THEN [ok |-> FALSE, err |-> TooManyMsg]
         ELSE ParseLoop(toks, i + 1, PushCopies(dice, r.count, r.die))

parse(s) == ParseLoop(split_whitespace(s), 1, <<>>)

\* dice.rs DiceRollRequest::parse
RECURSIVE DiceParseLoop(_, _, _)
DiceParseLoop(toks, i, dice) ==
    IF i > Len(toks) THEN [ok |-> TRUE, dice |-> dice]
    ELSE IF trim(toks[i]) = "" THEN DiceParseLoop(toks, i + 1, dice)
    ELSE LET r == dice_get_die_count(toks[i]) IN
         IF ~r.some THEN [ok |-> FALSE, err |-> ExpectedMsg(toks[i])]
         ELSE IF too_many(r.count) THEN [ok |-> FALSE, err |-> TooManyMsg]
         ELSE DiceParseLoop(toks, i + 1, PushCopies(dice, r.count, r.die))

dice_parse(s) == DiceParseLoop(split_whitespace(s), 1, <<>>)

----------------------------------------------------------------------------
(* Rolls.  enum Roll of sparkle.rs; dice.rs has the same without Shimmer. *)

Value(n, die) == [kind |-> "Value", value |-> n, die |-> die]

Glitch(die) == [kind |-> "Glitch", die |-> die]

Shimmer(initial, ultimate, shimmer_count, value) ==
    [kind |-> "Shimmer", initial |-> initial, ultimate |-> ultimate,
     shimmer_count |-> shimmer_count, value |-> value]

is_glitch(r) == r.kind = "Glitch"

is_shimmer(r) == r.kind = "Shimmer"

Max(a, b) == IF a >= b THEN a ELSE b

\* Die::roll without its test for the biggest die.
roll_draw_NoBiggest(self, num) ==
    IF num = 1 THEN [returns |-> TRUE, roll |-> Glitch(self)]
    ELSE IF num = sides(self) THEN [returns |-> FALSE, bigger_die |-> bump_up(self)]
    ELSE [returns |-> TRUE, roll |-> Value(num, self)]

\* sparkle.rs Die::roll up to its recursive call: what the call does with the
\* number num it drew.  Either it returns a Roll, or it has rolled its maximum
\* face and calls roll on the next bigger die.
roll_draw(self, num) ==
    IF num = 1 THEN [returns |-> TRUE, roll |-> Glitch(self)]
    ELSE IF self = "D12" THEN [returns |-> TRUE, roll |-> Value(num, self)]
    ELSE IF num = sides(self) THEN [returns |-> FALSE, bigger_die |-> bump_up(self)]
    ELSE [returns |-> TRUE, roll |-> Value(num, self)]

\* A match that lets the glitch of the bigger die through.
roll_match_GlitchWins(self, num, bigger_die, bigger_roll) ==
    CASE bigger_roll.kind = "Glitch" -> Glitch(self)
      [] bigger_roll.kind = "Value" ->
            IF bigger_roll.value < num
            THEN Value(num, self)
            ELSE Shimmer(self, bigger_die, 1, Max(num, bigger_roll.value))
      [] bigger_roll.kind = "Shimmer" ->
            Shimmer(self, bigger_roll.ultimate, bigger_roll.shimmer_count + 1,
                    Max(num, bigger_roll.value))

\* A match that reports the triggering face, whatever the bigger die drew.
roll_match_KeepsNum(self, num, bigger_die, bigger_roll) ==
    CASE bigger_roll.kind = "Glitch" -> Value(num, self)
      [] bigger_roll.kind = "Value" ->
            IF bigger_roll.value < num
            THEN Value(num, self)
            ELSE Shimmer(self, bigger_die, 1, num)
      [] bigger_roll.kind = "Shimmer" ->
            Shimmer(self, bigger_roll.ultimate, bigger_roll.shimmer_count + 1, num)

\* A match that counts a repeated shimmer once.
roll_match_CountsOnce(self, num, bigger_die, bigger_roll) ==
    CASE bigger_roll.kind = "Glitch" -> Value(num, self)
      [] bigger_roll.kind = "Value" ->
            IF bigger_roll.value < num
            THEN Value(num, self)
            ELSE Shimmer(self, bigger_die, 1, Max(num, bigger_roll.value))
      [] bigger_roll.kind = "Shimmer" ->
            Shimmer(self, bigger_roll.ultimate, bigger_roll.shimmer_count,
                    Max(num, bigger_roll.value))

\* sparkle.rs Die::roll after its recursive call: the match on bigger_roll.
roll_match(self, num, bigger_die, bigger_roll) ==
    CASE bigger_roll.kind = "Glitch" -> Value(num, self)
      [] bigger_roll.kind = "Value" ->
            IF bigger_roll.value < num
            THEN Value(num, self)
            ELSE Shimmer(self, bigger_die, 1, Max(num, bigger_roll.value))
      [] bigger_roll.kind = "Shimmer" ->
            Shimmer(self, bigger_roll.ultimate, bigger_roll.shimmer_count + 1,
                    Max(num, bigger_roll.value))

\* The waiting calls return, innermost (the last frame) first.
RECURSIVE Unwind(_, _, _)
Unwind(stack, bigger_die, bigger_roll) ==
    IF stack = <<>> THEN bigger_roll
    ELSE LET f == stack[Len(stack)] IN
         Unwind(SubSeq(stack, 1, Len(stack) - 1), f.self,
                roll_match(f.self, f.num, bigger_die, bigger_roll))

\* sparkle.rs Die::roll as it is written, a recursive function, given the numbers
\* its calls draw, outermost first.
RECURSIVE roll(_, _)
roll(self, draws) ==
    LET d == roll_draw(self, Head(draws)) IN
    IF d.returns THEN d.roll
    ELSE roll_match(self, Head(draws), d.bigger_die, roll(d.bigger_die, Tail(draws)))

\* dice.rs Die::roll, given the number drawn.
dice_roll_draw(self, num) == IF num = 1 THEN Glitch(self) ELSE Value(num, self)

----------------------------------------------------------------------------
(* Evaluation and rendering: impl RollResult.  dice.rs and sparkle.rs hold the  *)
(* same code, dice.rs without the Shimmer arms and with Die { sides } in place *)
(* of the enum; the parameter v says which file's Die is meant.                *)

\* die.sides() in sparkle.rs, die.sides in dice.rs.
SidesOf(v, die) == IF v = "dice" THEN die.sides ELSE sides(die)

\* rand::thread_rng().gen_range(1..=sides): the numbers a call of Die::roll may draw.
DrawSet(v, die) == 1..SidesOf(v, die)

\* The derived Ord of Die: the field sides in dice.rs, the enum order in sparkle.rs.
DieRank(v, die) == IF v = "dice" THEN die.sides ELSE Ord(die)

\* A fall-back of d6 in place of the d4.
DefaultDie_Six(v) == IF v = "dice" THEN [sides |-> 6] ELSE "D6"

\* The fallback effect die: Die { sides: 4 } in dice.rs, Die::D4 in sparkle.rs.
DefaultDie(v) == IF v = "dice" THEN [sides |-> 4] ELSE "D4"

\* impl Display for Die
DieDisplay(v, die) == "d" \o ToString(SidesOf(v, die))

Botch == [kind |-> "Botch"]

Result(total, effect) == [kind |-> "Result", total |-> total, effect |-> effect]

\* Lexicographic order on pairs, as Rust orders tuples.
PairLess(a, b) == a[1] < b[1] \/ (a[1] = b[1] /\ a[2] < b[2])

RECURSIVE SumSeq(_)
SumSeq(q) == IF q = <<>> THEN 0 ELSE Head(q) + SumSeq(Tail(q))

\* iter().rev().take(n): the last n elements (in the order they stand).
LastN(q, n) == SubSeq(q, Max(1, Len(q) - n + 1), Len(q))

\* A skip that passes over one element only.
ButLastN_One(q, n) == SubSeq(q, 1, Max(0, Len(q) - 1))

\* iter().rev().skip(n): all but the last n elements.
ButLastN(q, n) == SubSeq(q, 1, Max(0, Len(q) - n))

\* The filter_map of get_highest_effect: the (value, die) of every non-glitch
\* roll, in order; a Shimmer counts with its ultimate die.
RECURSIVE NonGlitches(_)
NonGlitches(q) ==
    IF q = <<>> THEN <<>>
    ELSE LET r == Head(q) IN
         (CASE r.kind = "Glitch"  -> <<>>
            [] r.kind = "Shimmer" -> << <<r.value, r.ultimate>> >>
            [] r.kind = "Value"   -> << <<r.value, r.die>> >>)
         \o NonGlitches(Tail(q))

\* Insertion of x into the ascending sequence q, after every element not above it.
RECURSIVE InsertVal(_, _)
InsertVal(q, x) ==
    IF q = <<>> THEN <<x>>
    ELSE IF x < Head(q) THEN <<x>> \o q
    ELSE <<Head(q)>> \o InsertVal(Tail(q), x)

\* Vec<u64>::sort
RECURSIVE SortVals(_)
SortVals(q) ==
    IF q = <<>> THEN <<>> ELSE InsertVal(SortVals(SubSeq(q, 1, Len(q) - 1)), q[Len(q)])

\* A fallback that needs fewer than two rolls.
too_few_Two(n) == n < 2

\* get_highest_effect: vals.len() < 3, too few rolls to have an effect die.
too_few(n) == n < 3

\* RollResult::get_highest_effect
get_highest_effect(v, rolls) ==
    LET vals == NonGlitches(rolls)
        key(i) == <<SidesOf(v, vals[i][2]), 0 - vals[i][1]>>
        \* max_by_key keeps the last of several equally maximal elements
        effect_idx == CHOOSE i \in 1..Len(vals) :
                         \A j \in 1..Len(vals) :
                            PairLess(key(j), key(i)) \/ (key(j) = key(i) /\ j <= i)
    IN
    IF vals = <<>> THEN Botch
    ELSE IF too_few(Len(vals))
    THEN Result(SumSeq([i \in 1..Len(vals) |-> vals[i][1]]), DefaultDie(v))
    ELSE LET remaining_vals ==
                 SortVals([i \in 1..(Len(vals) - 1) |->
                              IF i < effect_idx THEN vals[i][1] ELSE vals[i + 1][1]])
         IN Result(SumSeq(LastN(remaining_vals, 2)), vals[effect_idx][2])

\* A sort key that ranks the larger die above the smaller among equal values.
TotalKey_LargerDieLast(v, r) ==
    CASE r.kind = "Glitch"  -> <<0, 0>>
      [] r.kind = "Shimmer" -> <<r.value, SidesOf(v, r.ultimate)>>
      [] r.kind = "Value"   -> <<r.value, SidesOf(v, r.die)>>

\* The sort key of get_highest_total.
TotalKey(v, r) ==
    CASE r.kind = "Glitch"  -> <<0, 0>>
      [] r.kind = "Shimmer" -> <<r.value, 0 - SidesOf(v, r.ultimate)>>
      [] r.kind = "Value"   -> <<r.value, 0 - SidesOf(v, r.die)>>

\* Insertion of roll x behind every roll whose key is not above its own.
RECURSIVE InsertRoll(_, _, _)
InsertRoll(v, q, x) ==
    IF q = <<>> THEN <<x>>
    ELSE IF PairLess(TotalKey(v, x), TotalKey(v, Head(q))) THEN <<x>> \o q
    ELSE <<Head(q)>> \o InsertRoll(v, Tail(q), x)

\* A sort that leaves the rolls as they stand.
sort_by_key_Unsorted(v, q) == q

\* Insertion of roll x in front of every roll whose key is not below its own.
RECURSIVE InsertRollBefore(_, _, _)
InsertRollBefore(v, q, x) ==
    IF q = <<>> THEN <<x>>
    ELSE IF PairLess(TotalKey(v, Head(q)), TotalKey(v, x))
    THEN <<Head(q)>> \o InsertRollBefore(v, Tail(q), x)
    ELSE <<x>> \o q

\* A sort that is not stable: rolls of equal key come out in reverse order.
RECURSIVE sort_by_key_Unstable(_, _)
sort_by_key_Unstable(v, q) ==
    IF q = <<>> THEN <<>>
    ELSE InsertRollBefore(v, sort_by_key_Unstable(v, SubSeq(q, 1, Len(q) - 1)), q[Len(q)])

\* Vec::sort_by_key, a stable sort.
RECURSIVE sort_by_key(_, _)
sort_by_key(v, q) ==
    IF q = <<>> THEN <<>>
    ELSE InsertRoll(v, sort_by_key(v, SubSeq(q, 1, Len(q) - 1)), q[Len(q)])

\* RollResult::get_highest_total: the rolls as it leaves them, and its result.
get_highest_total(v, rolls) ==
    LET sorted == sort_by_key(v, rolls)
        top    == NonGlitches(LastN(sorted, 2))
        total  == SumSeq([i \in 1..Len(top) |-> top[i][1]])
        rest   == NonGlitches(ButLastN(sorted, 2))
        effect == IF rest = <<>> THEN DefaultDie(v)
                  ELSE LET i == CHOOSE i \in 1..Len(rest) :
                                   \A j \in 1..Len(rest) :
                                      DieRank(v, rest[j][2]) <= DieRank(v, rest[i][2])
                       IN rest[i][2]
    IN [rolled_die |-> sorted,
        result |-> IF total = 0 THEN Botch ELSE Result(total, effect)]

\* A test that never sees a botch.
is_botch_Never(rolls) == FALSE

\* A test that wants at least one glitch.
is_botch_NeedsAGlitch(rolls) ==
    rolls # <<>> /\ \A i \in 1..Len(rolls) : rolls[i].kind = "Glitch"

\* RollResult::is_botch
is_botch(rolls) == \A i \in 1..Len(rolls) : is_glitch(rolls[i])

Count(q, P(_)) == Cardinality({i \in 1..Len(q) : P(q[i])})

InternalError == "Internal error, disagreement on botch??"

\* The lines of short_summary that count the glitches and the shimmers.
CountLines(glitch_count, shimmer_count) ==
    (IF glitch_count > 0 THEN ToString(glitch_count) \o " Glitches!\n" ELSE "")
    \o (IF shimmer_count > 0 THEN ToString(shimmer_count) \o " Shimmers!\n" ELSE "")

\* The match of short_summary on (highest_effect, highest_total); s holds the
\* lines written before it.
SummaryMatch(v, s, highest_effect, highest_total) ==
    IF highest_effect = Botch \/ highest_total = Botch THEN InternalError
    ELSE IF highest_effect = highest_total
    THEN s \o "Total: " \o ToString(highest_effect.total)
           \o " (effect " \o DieDisplay(v, highest_effect.effect) \o ")"
    ELSE s \o "Best effect: " \o ToString(highest_effect.total)
           \o " (effect " \o DieDisplay(v, highest_effect.effect) \o ")\n"
           \o "Best total: " \o ToString(highest_total.total)
           \o " (effect " \o DieDisplay(v, highest_total.effect) \o ")\n"

\* short_summary from its two evaluations on: highest_effect was computed on
\* the rolls as they stood, ht is what get_highest_total returned and left.
SummaryOf(v, rolls, highest_effect, ht) ==
    [rolled_die |-> ht.rolled_die,
     s |-> SummaryMatch(v, CountLines(Count(rolls, is_glitch), Count(rolls, is_shimmer)),
                        highest_effect, ht.result)]

\* RollResult::short_summary: the rolls as it leaves them, and its string.
short_summary(v, rolls) ==
    IF is_botch(rolls) THEN [rolled_die |-> rolls, s |-> "**BOTCH!**"]
    ELSE SummaryOf(v, rolls, get_highest_effect(v, rolls), get_highest_total(v, rolls))

\* One roll of the listing of to_discord_markdown.
RollMarkdown(v, r) ==
    CASE r.kind = "Glitch" -> "**1** (d" \o ToString(SidesOf(v, r.die)) \o ") "
      [] r.kind = "Shimmer" ->
            IF r.shimmer_count = 1
            THEN "**" \o ToString(r.value) \o "** (d" \o ToString(SidesOf(v, r.initial))
                 \o " shimmered up to d" \o ToString(SidesOf(v, r.ultimate)) \o ") "
            ELSE "**" \o ToString(r.value) \o "** (d" \o ToString(SidesOf(v, r.initial))
                 \o " shimmered **" \o ToString(r.shimmer_count) \o "** times up to d"
                 \o ToString(SidesOf(v, r.ultimate)) \o ") "
      [] r.kind = "Value" ->
            ToString(r.value) \o " (d" \o ToString(SidesOf(v, r.die)) \o ") "

RECURSIVE Listing(_, _)
Listing(v, q) == IF q = <<>> THEN "" ELSE RollMarkdown(v, Head(q)) \o Listing(v, Tail(q))

\* to_discord_markdown once short_summary has returned sum.
MarkdownOf(listing, sum) == [rolled_die |-> sum.rolled_die, s |-> listing \o "\n\n" \o sum.s]

\* RollResult::to_discord_markdown: the rolls as it leaves them, and its string.
to_discord_markdown(v, rolls) == MarkdownOf(Listing(v, rolls), short_summary(v, rolls))

\* The length limit of get_response.
MaxResponseLen == 1950

TooLongNote ==
    "?? hoo.. that's a lot. I don't wanna flood the chat here, so, uh, I'll give you the quick summary:\n\n"

\* A choice that already summarises a response of exactly the limit.
Answer_AtLimit(v, dice, rolled, resp) ==
    IF Len(resp) >= 1950
    THEN [rolled_die |-> short_summary(v, rolled).rolled_die,
          s |-> "Roll " \o dice
                \o "?? hoo.. that's a lot. I don't wanna flood the chat here, so, uh, I'll give you the quick summary:\n\n"
                \o short_summary(v, rolled).s]
    ELSE [rolled_die |-> rolled, s |-> resp]

\* The answer on the long branch, once the second short_summary has returned sum.
ShortAnswer(dice, sum) ==
    [rolled_die |-> sum.rolled_die, s |-> "Roll " \o dice \o TooLongNote \o sum.s]

\* get_response, lines 31-39: the choice between resp and the short answer.
Answer(v, dice, rolled, resp) ==
    IF Len(resp) > MaxResponseLen
    THEN ShortAnswer(dice, short_summary(v, rolled))
    ELSE [rolled_die |-> rolled, s |-> resp]

\* get_response, lines 26-39, once to_discord_markdown has returned md.
RespondWith(v, dice, md) ==
    Answer(v, dice, md.rolled_die, "Rolling " \o dice \o "\n\nResult: " \o trim(md.s))

\* get_response once the dice are rolled: the rolls as it leaves them, and the
\* string it returns.
Respond(v, dice, rolls) == RespondWith(v, dice, to_discord_markdown(v, rolls))

----------------------------------------------------------------------------
(* dalle.rs and data.rs: the price of an image request and the accounts. *)

Dimensions == {"Wide", "Tall", "Square"}

Style == {"Natural", "Vivid"}

Quality == {"Standard", "HD"}

\* struct ImageRequest, without its description.
ImageRequest(num, dimensions, style, quality) ==
    [num |-> num, dimensions |-> dimensions, style |-> style, quality |-> quality]

\* Cost::cents
cents(c) == [millicents |-> c * 1000]

\* A price list that charges the square price for every shape.
base_cents_SquarePrice(dimensions, quality) == IF quality = "Standard" THEN 4 ELSE 8

\* ImageRequest::cost: the match on (self.dimensions, self.quality), first arm first.
base_cents(dimensions, quality) ==
    IF dimensions = "Square" /\ quality = "Standard" THEN 4
    ELSE IF dimensions = "Square" /\ quality = "HD" THEN 8
    ELSE IF quality = "Standard" THEN 8
    ELSE 12

\* ImageRequest::cost
cost(self) == cents(base_cents(self.dimensions, self.quality) * self.num)

\* ImageRequest::num_images
num_images(self) == self.num

\* The name an account is opened under: format!("{}#{}", user.name, user.discriminator).
UserName(user) == "user" \o ToString(user) \o "#0000"

\* Account::default_for_user
default_for_user(user) ==
    [user |-> UserName(user), images |-> 0, credit |-> DefaultCredit, total_cost |-> 0]

\* An account that is refused as soon as its credit is used up.
overdrafted_AtZero(self) == self.credit <= 0

\* Account::overdrafted
overdrafted(self) == self.credit < 0

\* Account::account_for_request.  The amounts of the model stay far inside i64.
account_for_request(self, req) ==
    [self EXCEPT !.credit = @ - cost(req).millicents,
                 !.total_cost = @ + cost(req).millicents,
                 !.images = @ + num_images(req)]

\* An insertion that replaces the entry that is there.
or_insert_Replaces(map, key, value) ==
    [k \in DOMAIN map \cup {key} |-> IF k = key THEN value ELSE map[k]]

\* BTreeMap::entry(key).or_insert(value): the map with the entry in it.
or_insert(map, key, value) ==
    IF key \in DOMAIN map THEN map
    ELSE [k \in DOMAIN map \cup {key} |-> IF k = key THEN value ELSE map[k]]

\* Option<T>: None is [some |-> FALSE].
SomeOf(x) == [some |-> TRUE, val |-> x]

\* Option::unwrap_or
unwrap_or(opt, default) == IF opt.some THEN opt.val ELSE default

----------------------------------------------------------------------------
(* The inputs of the model. *)

Variants == {"dice", "sparkle"}

\* The tokens expressions are built from: the three spellings of one d4, other
\* single dice, counts of 0 and 3, side counts outside 4..12, and malformed tokens.
Tokens ==
    {"d4", "1d4", "4", "3d6", "d10", "12", "d12", "0d8", "d0", "d1", "d13", "13",
     "d", "xd6"}

RECURSIVE Join(_)
Join(toks) ==
    IF toks = <<>> THEN ""
    ELSE IF Len(toks) = 1 THEN toks[1]
    ELSE toks[1] \o " " \o Join(Tail(toks))

TokenSeqs == UNION {[1..n -> Tokens] : n \in 0..MaxTokens}

\* Expressions around the limit on the count: the largest accepted and the
\* smallest refused count, alone and beside other tokens.
CountExprs ==
    {"1000000d4", "1000001d4", "4 1000000d12", "1000001d10 xd6", "d 1000001d4",
     "1000001d13"}

\* n spaces.
RECURSIVE Spaces(_)
Spaces(n) ==
    IF n = 0 THEN ""
    ELSE IF n % 2 = 0 THEN LET half == Spaces(n \div 2) IN half \o half
    ELSE " " \o Spaces(n - 1)

\* The numbers of spaces that follow the dice of a padded expression.  The
\* response echoes the expression, so with these the full response of two
\* rolled dice is well below, exactly at, or above the length limit.
PadLens == {1870, 1893, 1894}

\* Expressions of two dice followed by spaces.
PaddedExprs == {"4 6" \o Spaces(n) : n \in PadLens}

\* The expressions: up to MaxTokens tokens separated by one space, some with
\* other whitespace, those around the count limit, and the padded ones.
Exprs ==
    {Join(ts) : ts \in TokenSeqs} \cup {" ", "  d4 \t 3d6\n"} \cup CountExprs
    \cup PaddedExprs

\* The requests whose dice the model rolls: those of at most MaxRoll dice, and
\* the padded expressions.
Rolls(in, dice) == VecLen(dice) <= MaxRoll \/ in \in PaddedExprs

NoRoll == [die |-> "none", draws |-> <<>>]

NoCall == [call |-> "none"]

\* No get-together exists and the task of cache_ready is not spawned.
NoEvents ==
    /\ get_togethers = <<>>
    /\ rwlock = "free"
    /\ scanner = [pc |-> "unspawned"]
    /\ messages = <<>>
    /\ clock = 0
    /\ sent = <<>>
    /\ channels = [time_change |-> FALSE, serialize |-> FALSE]
    /\ state_file = [found |-> FALSE]

\* No /gen command runs: no account, no file, no invocation.
NoImages ==
    /\ accounts = <<>>
    /\ data_json = [valid |-> TRUE, accounts |-> <<>>]
    /\ mutex = 0
    /\ calls = <<>>
    /\ priced = [priced |-> FALSE]

----------------------------------------------------------------------------
(* The state machine: one call of get_response. *)

Init ==
    /\ variant \in Variants
    /\ input \in Exprs
    /\ pc = "start"
    /\ request = [ok |-> FALSE, err |-> ""]
    /\ next_die = 0
    /\ frames = <<>>
    /\ cur = "none"
    /\ last = NoRoll
    /\ rolled_die = <<>>
    /\ response = ""
    /\ returned = NoCall
    /\ NoImages
    /\ NoEvents

\* DiceRollRequest::parse(&dice) of the command that runs.
ParseFor(v, s) == IF v = "dice" THEN dice_parse(s) ELSE parse(s)

\* get_response, lines 18-24: parse, and return the error if there is one.
\* DiceRollRequest::roll then starts with the first die, if any.
Parse ==
    /\ pc = "start"
    /\ LET r == ParseFor(variant, input) IN
       /\ request' = r
       /\ IF ~r.ok
          THEN /\ pc' = "done"
               /\ response' = r.err
               /\ UNCHANGED <<next_die, cur>>
          ELSE /\ response' = response
               /\ IF VecLen(r.dice) = 0
                  THEN pc' = "rolled" /\ UNCHANGED <<next_die, cur>>
                  ELSE /\ pc' = IF Rolls(input, r.dice) THEN "rolling" ELSE "unrolled"
                       /\ next_die' = 1
                       /\ cur' = VecAt(r.dice, 1)
    /\ UNCHANGED <<variant, input, frames, last, rolled_die, returned>>
    /\ UNCHANGED <<imageVars, eventVars>>

\* The roll of the current die has returned r: DiceRollRequest::roll pushes it
\* and goes on to the next die.
Pushed(r, drawn) ==
    /\ rolled_die' = Append(rolled_die, r)
    /\ last' = [die |-> VecAt(request.dice, next_die), draws |-> drawn, roll |-> r]
    /\ frames' = <<>>
    /\ IF next_die < VecLen(request.dice)
       THEN /\ next_die' = next_die + 1
            /\ cur' = VecAt(request.dice, next_die + 1)
            /\ pc' = "rolling"
       ELSE /\ UNCHANGED <<next_die, cur>>
            /\ pc' = "rolled"

\* The draws made so far by the roll of the current die.
Drawn == [i \in 1..Len(frames) |-> frames[i].num]

\* sparkle.rs Die::roll: one call draws num = gen_range(1..=self.sides()).
Draw ==
    /\ pc = "rolling"
    /\ variant = "sparkle"
    /\ \E num \in DrawSet(variant, cur) :
          LET d == roll_draw(cur, num) IN
          IF d.returns
          THEN Pushed(Unwind(frames, cur, d.roll), Append(Drawn, num))
          ELSE /\ frames' = Append(frames, [self |-> cur, num |-> num])
               /\ cur' = d.bigger_die
               /\ UNCHANGED <<pc, next_die, last, rolled_die>>
    /\ UNCHANGED <<variant, input, request, response, returned>>
    /\ UNCHANGED <<imageVars, eventVars>>

\* dice.rs Die::roll: num = gen_range(1..=self.sides), of a range that is not empty.
DiceDraw ==
    /\ pc = "rolling"
    /\ variant = "dice"
    /\ \E num \in DrawSet(variant, cur) : Pushed(dice_roll_draw(cur, num), <<num>>)
    /\ UNCHANGED <<variant, input, request, response, returned>>
    /\ UNCHANGED <<imageVars, eventVars>>

\* dice.rs Die::roll: gen_range panics on the empty range 1..=0.
DicePanic ==
    /\ pc = "rolling"
    /\ variant = "dice"
    /\ cur.sides < 1
    /\ pc' = "panicked"
    /\ UNCHANGED <<variant, input, request, next_die, frames, cur, last, rolled_die,
                   response, returned>>
    /\ UNCHANGED <<imageVars, eventVars>>

\* The state get_response leaves when it returns r.
Returned(r) ==
    /\ rolled_die' = r.rolled_die
    /\ response' = r.s
    /\ pc' = "done"

\* get_response, lines 26-39: render, and fall back to the summary when too long.
Render ==
    /\ pc = "rolled"
    /\ Returned(Respond(variant, input, rolled_die))
    /\ UNCHANGED <<variant, input, request, next_die, frames, cur, last, returned>>
    /\ UNCHANGED <<imageVars, eventVars>>

Next == Parse \/ Draw \/ DiceDraw \/ DicePanic \/ Render

Spec == Init /\ [][Next]_vars

----------------------------------------------------------------------------
(* The methods of RollResult called on their own, as the unit tests call them, *)
(* on roll results built by hand.                                              *)

\* The five dice, as each file writes them.
EvalDice(v) == IF v = "dice" THEN {[sides |-> n] : n \in {4, 6, 8, 10, 12}} ELSE DieSet

\* The rolls the results are built from: low values on every die (the unit tests
\* build Value(1, D4)), a glitch on the smallest and on the largest die, and for
\* sparkle.rs two shimmers.
EvalRolls(v) ==
    {Value(n, d) : n \in {1, 2, 3}, d \in EvalDice(v)}
    \cup {Glitch(d) : d \in {DefaultDie(v), IF v = "dice" THEN [sides |-> 12] ELSE "D12"}}
    \cup (IF v = "dice" THEN {}
          ELSE {Shimmer("D4", "D8", 2, 6), Shimmer("D8", "D10", 1, 8)})

InitEval ==
    /\ variant \in Variants
    /\ rolled_die \in UNION {[1..n -> EvalRolls(variant)] : n \in 0..MaxRolls}
    /\ pc = "eval"
    /\ input = ""
    /\ request = [ok |-> FALSE, err |-> ""]
    /\ next_die = 0
    /\ frames = <<>>
    /\ cur = "none"
    /\ last = NoRoll
    /\ response = ""
    /\ returned = NoCall
    /\ NoImages
    /\ NoEvents

EvalUnchanged ==
    /\ UNCHANGED <<variant, input, pc, request, next_die, frames, cur, last, response>>
    /\ UNCHANGED <<imageVars, eventVars>>

\* roll_result.get_highest_effect(), which takes &self
GetHighestEffect ==
    /\ pc = "eval"
    /\ returned' = [call |-> "get_highest_effect", on |-> rolled_die,
                    value |-> get_highest_effect(variant, rolled_die)]
    /\ UNCHANGED rolled_die
    /\ EvalUnchanged

\* The state a &mut self method leaves when it returns r.
Called(name, r, value) ==
    /\ returned' = [call |-> name, on |-> rolled_die, value |-> value]
    /\ rolled_die' = r.rolled_die

\* roll_result.get_highest_total(), which takes &mut self
GetHighestTotalOf(r) == Called("get_highest_total", r, r.result)

GetHighestTotal ==
    /\ pc = "eval"
    /\ GetHighestTotalOf(get_highest_total(variant, rolled_die))
    /\ EvalUnchanged

\* roll_result.short_summary(), which takes &mut self
ShortSummaryOf(r) == Called("short_summary", r, r.s)

ShortSummary ==
    /\ pc = "eval"
    /\ ShortSummaryOf(short_summary(variant, rolled_die))
    /\ EvalUnchanged

NextEval == GetHighestEffect \/ GetHighestTotal \/ ShortSummary

SpecEval == InitEval /\ [][NextEval]_vars

----------------------------------------------------------------------------
(* The /gen command: dalle.rs gen up to the answer of debit_for_request, and  *)
(* data.rs debit_for_request step by step.                                    *)

\* The users that invoke /gen.
Users == {1, 2}

\* The invocations.
Calls == 1..MaxCalls

\* The arguments /gen is invoked with: no number (4 images), none, one, and
\* more than ten; the default shape or a wide one; the default quality or HD.
NumArgs == {None, SomeOf(0), SomeOf(1), SomeOf(11)}

SizeArgs == {None, SomeOf("Wide")}

StyleArgs == {None}

QualityArgs == {None, SomeOf("HD")}

\* The credits of the accounts read from data.json when the bot starts:
\* overdrawn, used up, and enough for exactly one square standard image.
LoadedCredits == {-1, 0, 4000}

\* An account as data.json holds it.
LoadedAccount(user, credit) ==
    [user |-> UserName(user), images |-> 0, credit |-> credit, total_cost |-> 0]

\* Data::read_or_create: the cost maps the bot may start with.  User 1 may have
\* an account, user 2 has none.
LoadedMaps == {<<>>} \cup {[u \in {1} |-> LoadedAccount(u, c)] : c \in LoadedCredits}

\* An invocation that has not started.
IdleCall ==
    [pc |-> "idle", user |-> 0, req |-> ImageRequest(0, "Square", "Vivid", "Standard"),
     result |-> "none"]

\* No dice command runs.
NoDice ==
    /\ variant = "dice"
    /\ input = ""
    /\ pc = "none"
    /\ request = [ok |-> FALSE, err |-> ""]
    /\ next_die = 0
    /\ frames = <<>>
    /\ cur = "none"
    /\ last = NoRoll
    /\ rolled_die = <<>>
    /\ response = ""
    /\ returned = NoCall

InitGen ==
    /\ accounts \in LoadedMaps
    /\ data_json = [valid |-> TRUE, accounts |-> accounts]
    /\ mutex = 0
    /\ calls = [c \in Calls |-> IdleCall]
    /\ priced = [priced |-> FALSE]
    /\ NoDice
    /\ NoEvents

\* dalle.rs gen, lines 18-36: the checks on num and the request it builds.
GenOf(c, user, num, size, style, quality) ==
    IF num > 10 THEN calls' = [calls EXCEPT ![c].pc = "done", ![c].user = user,
                                            ![c].result = "TooMany"]
    ELSE IF num = 0 THEN calls' = [calls EXCEPT ![c].pc = "done", ![c].user = user,
                                                ![c].result = "Zero"]
    ELSE calls' = [calls EXCEPT ![c].pc = "debit", ![c].user = user,
                                ![c].req = ImageRequest(num, size, style, quality)]

\* A user invokes /gen.
Gen(c) ==
    /\ calls[c].pc = "idle"
    /\ \E user \in Users, num \in NumArgs, size \in SizeArgs, style \in StyleArgs,
          quality \in QualityArgs :
          GenOf(c, user, unwrap_or(num, 4), unwrap_or(size, "Square"),
                unwrap_or(style, "Vivid"), unwrap_or(quality, "Standard"))
    /\ UNCHANGED <<accounts, data_json, mutex, priced>>
    /\ UNCHANGED <<diceVars, eventVars>>

\* debit_for_request, line 105: data.accounts.lock().await
Lock(c) ==
    /\ calls[c].pc = "debit"
    /\ mutex = 0
    /\ mutex' = c
    /\ calls' = [calls EXCEPT ![c].pc = "locked"]
    /\ UNCHANGED <<accounts, data_json, priced>>
    /\ UNCHANGED <<diceVars, eventVars>>

\* debit_for_request, lines 107-113, with the entry of the user in the map:
\* refuse an overdrafted account, debit any other.
DebitOf(c, map, user) ==
    IF overdrafted(map[user])
    THEN /\ accounts' = map
         /\ calls' = [calls EXCEPT ![c].pc = "done", ![c].result = "No"]
         /\ mutex' = 0
    ELSE /\ accounts' = [map EXCEPT ![user] = account_for_request(@, calls[c].req)]
         /\ calls' = [calls EXCEPT ![c].pc = "write"]
         /\ mutex' = mutex

Debit(c) ==
    /\ calls[c].pc = "locked"
    /\ DebitOf(c, or_insert(accounts, calls[c].user, default_for_user(calls[c].user)),
               calls[c].user)
    /\ UNCHANGED <<data_json, priced>>
    /\ UNCHANGED <<diceVars, eventVars>>

\* debit_for_request, lines 115-119: the map is written to data.json.
Write(c) ==
    /\ calls[c].pc = "write"
    /\ data_json' = [valid |-> TRUE, accounts |-> accounts]
    /\ calls' = [calls EXCEPT ![c].pc = "done", ![c].result = "Yes"]
    /\ mutex' = 0
    /\ UNCHANGED <<accounts, priced>>
    /\ UNCHANGED <<diceVars, eventVars>>

\* debit_for_request, line 117: tokio::fs::write fails and the error is
\* returned; the file is as it was, or cut short.
WriteFails(c) ==
    /\ calls[c].pc = "write"
    /\ data_json' \in {data_json, [valid |-> FALSE]}
    /\ calls' = [calls EXCEPT ![c].pc = "done", ![c].result = "Err"]
    /\ mutex' = 0
    /\ UNCHANGED <<accounts, priced>>
    /\ UNCHANGED <<diceVars, eventVars>>

NextGen ==
    \E c \in Calls : Gen(c) \/ Lock(c) \/ Debit(c) \/ Write(c) \/ WriteFails(c)

SpecGen == InitGen /\ [][NextGen]_vars

----------------------------------------------------------------------------
(* ImageRequest::cost called on its own, as the unit tests call it. *)

\* The requests /gen can build: gen refuses num = 0 and num > 10.
ImageRequests ==
    {ImageRequest(num, d, st, q) : num \in 1..10, d \in Dimensions, st \in Style,
                                   q \in Quality}

InitCost ==
    /\ priced \in {[priced |-> FALSE, req |-> r] : r \in ImageRequests}
    /\ accounts = <<>>
    /\ data_json = [valid |-> TRUE, accounts |-> <<>>]
    /\ mutex = 0
    /\ calls = <<>>
    /\ NoDice
    /\ NoEvents

\* request.cost()
Cost ==
    /\ ~priced.priced
    /\ priced' = [priced |-> TRUE, req |-> priced.req, cost |-> cost(priced.req)]
    /\ UNCHANGED <<accounts, data_json, mutex, calls>>
    /\ UNCHANGED <<diceVars, eventVars>>

NextCost == Cost

SpecCost == InitCost /\ [][NextCost]_vars

----------------------------------------------------------------------------
(* main.rs: the get-togethers.  Handler::message handles "!event" and the     *)
(* replies to a get-together's post; the task spawned by Handler::cache_ready *)
(* scans the get-togethers and announces those whose time has passed.        *)

\* The number of messages the handler receives.
MaxMsgs == 1

\* The latest time the clock reaches; the unit is half an hour.
MaxTime == 2

\* Duration::hours(1), the longest sleep of the scanning task.
Hour == 2

\* struct GetTogether, without its channel.
GetTogether(message, title, time, description, notified) ==
    [message |-> message, title |-> title, time |-> time,
     description |-> description, notified |-> notified]

\* GetTogether::is_initialized
is_initialized(self) ==
    ~(~self.time.some \/ (self.title = "" /\ self.description = ""))

\* str::strip_prefix
strip_prefix(s, prefix) ==
    IF Len(s) >= Len(prefix) /\ SubSeq(s, 1, Len(prefix)) = prefix
    THEN SomeOf(SubSeq(s, Len(prefix) + 1, Len(s)))
    ELSE None

\* BTreeMap::insert
insert(map, key, value) ==
    [k \in DOMAIN map \cup {key} |-> IF k = key THEN value ELSE map[k]]

\* A removal that removes nothing.
remove_all_Nothing(map, keys) == map

\* The loop of BTreeMap::remove over to_remove.
remove_all(map, keys) == [k \in DOMAIN map \ keys |-> map[k]]

\* Handler::handle_reply_command on the map msgs, where date is what
\* parse_date_string returns for the text after "time:": the map as the call
\* leaves it, the value it returns, and whether it notified of a time change.
\* The backquotes of the last message are written as apostrophes.
handle_reply_command(msgs, msg_content, replying_to_id, date) ==
    IF replying_to_id \notin DOMAIN msgs
    THEN [msgs |-> msgs, ret |-> None, time_change |-> FALSE]
    ELSE LET get_together == msgs[replying_to_id]
             new_title == strip_prefix(msg_content, "title: ")
             new_description == strip_prefix(msg_content, "description: ")
             str_time == strip_prefix(msg_content, "time:")
             Edited(g, reply, changed) ==
                 [msgs |-> [msgs EXCEPT ![replying_to_id] = g],
                  ret |-> SomeOf([ok |-> TRUE, get_together |-> g, reply |-> reply,
                                  initialized |-> is_initialized(g)]),
                  time_change |-> changed]
             Refused(err) ==
                 [msgs |-> msgs, ret |-> SomeOf([ok |-> FALSE, err |-> err]),
                  time_change |-> FALSE]
         IN
         IF new_title.some
         THEN Edited([get_together EXCEPT !.title = trim(new_title.val)], "Reaction", FALSE)
         ELSE IF new_description.some
         THEN Edited([get_together EXCEPT !.description = trim(new_description.val)],
                     "Reaction", FALSE)
         ELSE IF str_time.some
         THEN IF date.ok
              THEN Edited([get_together EXCEPT !.time = SomeOf(date.val)], "Message", TRUE)
              ELSE Refused("couldn't parse time: " \o date.err)
         ELSE Refused("I'm confused you know. Try starting your message with "
                      \o "'title:' or 'description:' or 'time:'")

\* notify: try_send on a channel of capacity 1 leaves one unit queued.
notify(chans, name) == [chans EXCEPT ![name] = TRUE]

\* SerializableHandlerData::from_get_togethers: the keys become decimal strings.
from_get_togethers(map) ==
    [key \in {ToString(m) : m \in DOMAIN map} |->
        map[CHOOSE m \in DOMAIN map : ToString(m) = key]]

\* SerializableHandlerData::into_handler: the keys are parsed back to u64.
into_handler(file) ==
    [m \in {parse_u64(key).val : key \in DOMAIN file} |->
        file[CHOOSE key \in DOMAIN file : parse_u64(key).val = m]]

\* The ids of the posts: the two the bot may have loaded from data.json, and
\* the post message h is answered with when it is "!event".
LoadedIds == {7, 8}

NewId(h) == h

MsgIds == LoadedIds \cup {NewId(h) : h \in 1..MaxMsgs}

\* The times a get-together is set to.
Times == 0..MaxTime

\* The texts of the messages the bot receives.
Contents ==
    {"!event", "title: Overwatch ", "description: bring snacks", "time: 8pm friday", "hello"}

\* What parse_date_string may return.
Dates == {[ok |-> FALSE, err |-> "bad date"]} \cup {[ok |-> TRUE, val |-> t] : t \in Times}

\* The maps the bot may have written before it stopped: a get-together that
\* was set up for time 1, alone or beside one that was only posted.
LoadedGetTogethers ==
    LET ready == insert(<<>>, 7, GetTogether(7, "Overwatch", SomeOf(1), "", FALSE)) IN
    {ready, insert(ready, 8, GetTogether(8, "", None, "", FALSE))}

\* Handler::deserialize: data.json is missing, or holds what was written.
LoadedFiles ==
    {[found |-> FALSE]}
    \cup {[found |-> TRUE, get_togethers |-> from_get_togethers(map)] : map \in LoadedGetTogethers}

\* A message that has not arrived.
IdleMsg == [pc |-> "idle", author |-> "", content |-> "", reference |-> None]

\* The ids of a set, smallest first: the order BTreeMap::values_mut visits them in.
RECURSIVE Ascending(_)
Ascending(S) ==
    IF S = {} THEN <<>>
    ELSE LET m == CHOOSE m \in S : \A k \in S : m <= k IN <<m>> \o Ascending(S \ {m})

\* main, lines 601-603: the handler starts from data.json, or fresh.
InitEvent ==
    /\ state_file \in LoadedFiles
    /\ get_togethers = IF state_file.found THEN into_handler(state_file.get_togethers)
                       ELSE <<>>
    /\ rwlock = "free"
    /\ scanner = [pc |-> "unspawned"]
    /\ messages = [h \in 1..MaxMsgs |-> IdleMsg]
    /\ clock = 0
    /\ sent = [m \in MsgIds |-> 0]
    /\ channels = [time_change |-> FALSE, serialize |-> FALSE]
    /\ NoDice
    /\ accounts = <<>>
    /\ data_json = [valid |-> TRUE, accounts |-> <<>>]
    /\ mutex = 0
    /\ calls = <<>>
    /\ priced = [priced |-> FALSE]

\* Time passes.
Tick ==
    /\ clock < MaxTime
    /\ clock' = clock + 1
    /\ UNCHANGED <<get_togethers, rwlock, scanner, messages, sent, channels, state_file>>
    /\ UNCHANGED <<diceVars, imageVars>>

\* A call of Handler::message that has returned.
DoneMsg == [IdleMsg EXCEPT !.pc = "done"]

\* Handler::message up to its first wait.  A message of the bot itself is
\* ignored; "!event" is answered with a post, unless sending it fails; a reply
\* goes on to look its post up; any other message is ignored.
MessageOf(h, author, content, reference, posted) ==
    LET msg == [IdleMsg EXCEPT !.author = author, !.content = content,
                               !.reference = reference]
    IN
    IF author = "hypnos" THEN messages' = [messages EXCEPT ![h] = DoneMsg]
    ELSE IF content = "!event"
    THEN messages' = [messages EXCEPT
                         ![h] = IF posted THEN [msg EXCEPT !.pc = "insert"] ELSE DoneMsg]
    ELSE IF reference.some
    THEN messages' = [messages EXCEPT ![h] = [msg EXCEPT !.pc = "check"]]
    ELSE messages' = [messages EXCEPT ![h] = DoneMsg]

\* The messages arrive in the order of their numbers, and are handled at once.
Message(h) ==
    /\ messages[h].pc = "idle"
    /\ \A k \in 1..(h - 1) : messages[k].pc # "idle"
    /\ \E author \in {"hypnos", "rictic"}, content \in Contents,
          reference \in {None} \cup {SomeOf(m) : m \in MsgIds}, posted \in BOOLEAN :
          MessageOf(h, author, content, reference, posted)
    /\ UNCHANGED <<get_togethers, rwlock, scanner, clock, sent, channels, state_file>>
    /\ UNCHANGED <<diceVars, imageVars>>

\* Handler::message, lines 356-369: the new get-together enters the map under
\* the write lock.
Insert(h) ==
    /\ messages[h].pc = "insert"
    /\ rwlock = "free"
    /\ get_togethers' = insert(get_togethers, NewId(h),
                               GetTogether(NewId(h), "", None, "", FALSE))
    /\ channels' = notify(channels, "serialize")
    /\ messages' = [messages EXCEPT ![h] = DoneMsg]
    /\ UNCHANGED <<rwlock, scanner, clock, sent, state_file>>
    /\ UNCHANGED <<diceVars, imageVars>>

\* Handler::message, lines 382-387: under a read lock, a reply to a post that is
\* no get-together is ignored.
ReplyCheck(h) ==
    /\ messages[h].pc = "check"
    /\ rwlock = "free"
    /\ messages' = [messages EXCEPT
                       ![h] = IF messages[h].reference.val \in DOMAIN get_togethers
                              THEN [@ EXCEPT !.pc = "command"] ELSE DoneMsg]
    /\ UNCHANGED <<get_togethers, rwlock, scanner, clock, sent, channels, state_file>>
    /\ UNCHANGED <<diceVars, imageVars>>

\* Handler::message, lines 388-392, with the value handle_reply_command returned.
ReplyWith(h, r) ==
    /\ get_togethers' = r.msgs
    /\ channels' = IF r.time_change THEN notify(channels, "time_change") ELSE channels
    /\ messages' = [messages EXCEPT
                       ![h] = IF r.ret.some THEN [DoneMsg EXCEPT !.pc = "replying"]
                              ELSE DoneMsg]

\* handle_reply_command runs under the write lock.
ReplyCommand(h) ==
    /\ messages[h].pc = "command"
    /\ rwlock = "free"
    /\ \E date \in Dates :
          ReplyWith(h, handle_reply_command(get_togethers, messages[h].content,
                                            messages[h].reference.val, date))
    /\ UNCHANGED <<rwlock, scanner, clock, sent, state_file>>
    /\ UNCHANGED <<diceVars, imageVars>>

\* Handler::message, lines 393-443: the post is edited, the reply is sent, and
\* the serializing task is notified.
Acknowledge(h) ==
    /\ messages[h].pc = "replying"
    /\ channels' = notify(channels, "serialize")
    /\ messages' = [messages EXCEPT ![h] = DoneMsg]
    /\ UNCHANGED <<get_togethers, rwlock, scanner, clock, sent, state_file>>
    /\ UNCHANGED <<diceVars, imageVars>>

\* The scanning task outside a scan: its locals hold nothing.
Spawned ==
    [pc |-> "sleeping", now |-> 0, todo |-> <<>>, to_remove |-> {},
     sleep_time |-> 0, wake_at |-> 0]

\* Handler::cache_ready: the first call spawns the scanning task, which locks
\* the receiver time_changed for good; the task of a later call waits for that
\* lock for ever and changes nothing.
CacheReady ==
    /\ scanner' = IF scanner.pc = "unspawned" THEN [Spawned EXCEPT !.pc = "start"]
                  ELSE scanner
    /\ UNCHANGED <<get_togethers, rwlock, messages, clock, sent, channels, state_file>>
    /\ UNCHANGED <<diceVars, imageVars>>

\* cache_ready, lines 455-458: the scan takes the write lock and reads the clock.
ScanStart ==
    /\ scanner.pc = "start"
    /\ rwlock = "free"
    /\ rwlock' = "scan"
    /\ scanner' = [scanner EXCEPT !.pc = "scanning", !.now = clock,
                                  !.todo = Ascending(DOMAIN get_togethers),
                                  !.to_remove = {}, !.sleep_time = Hour]
    /\ UNCHANGED <<get_togethers, messages, clock, sent, channels, state_file>>
    /\ UNCHANGED <<diceVars, imageVars>>

\* cache_ready, lines 459-533: the loop body for the get-together g, where
\* outcome says how the calls to the chat platform went.  What becomes of g,
\* whether it is to be removed, whether "It's time!" was sent, and the sleep time.
visit(g, now, sleep_time, outcome) ==
    IF g.notified
    THEN [g |-> g, remove |-> TRUE, sent |-> FALSE, sleep_time |-> sleep_time]
    ELSE IF ~g.time.some
    THEN [g |-> g, remove |-> FALSE, sent |-> FALSE, sleep_time |-> sleep_time]
    ELSE IF g.time.val < now
    THEN [g |-> [g EXCEPT !.notified = TRUE], remove |-> TRUE,
          sent |-> (outcome = "sent"), sleep_time |-> sleep_time]
    ELSE [g |-> g, remove |-> FALSE, sent |-> FALSE,
          sleep_time |-> IF g.time.val - now < sleep_time THEN g.time.val - now
                         ELSE sleep_time]

\* The scan visits the next get-together.
ScanVisit ==
    /\ scanner.pc = "scanning"
    /\ scanner.todo # <<>>
    /\ \E outcome \in {"no reactions", "not sent", "sent"} :
          LET m == Head(scanner.todo)
              v == visit(get_togethers[m], scanner.now, scanner.sleep_time, outcome) IN
          /\ get_togethers' = [get_togethers EXCEPT ![m] = v.g]
          /\ sent' = IF v.sent THEN [sent EXCEPT ![m] = @ + 1] ELSE sent
          /\ scanner' = [scanner EXCEPT
                            !.todo = Tail(@),
                            !.to_remove = IF v.remove THEN @ \cup {v.g.message} ELSE @,
                            !.sleep_time = v.sleep_time]
    /\ UNCHANGED <<rwlock, messages, clock, channels, state_file>>
    /\ UNCHANGED <<diceVars, imageVars>>

\* cache_ready, lines 534-544: the scan removes what it marked, notifies the
\* serializing task, releases the lock and goes to sleep.
ScanEnd ==
    /\ scanner.pc = "scanning"
    /\ scanner.todo = <<>>
    /\ get_togethers' = remove_all(get_togethers, scanner.to_remove)
    /\ channels' = IF scanner.to_remove # {} THEN notify(channels, "serialize")
                   ELSE channels
    /\ rwlock' = "free"
    /\ scanner' = [Spawned EXCEPT !.wake_at = clock + scanner.sleep_time]
    /\ UNCHANGED <<messages, clock, sent, state_file>>
    /\ UNCHANGED <<diceVars, imageVars>>

\* cache_ready, lines 546-550: the sleep ends, or a time change is received.
Wake ==
    /\ scanner.pc = "sleeping"
    /\ \/ /\ channels.time_change
          /\ channels' = [channels EXCEPT !.time_change = FALSE]
       \/ /\ clock >= scanner.wake_at
          /\ channels' = channels
    /\ scanner' = [scanner EXCEPT !.pc = "start"]
    /\ UNCHANGED <<get_togethers, rwlock, messages, clock, sent, state_file>>
    /\ UNCHANGED <<diceVars, imageVars>>

\* cache_ready, lines 556-568: the serializing task receives a unit, copies the
\* map under a read lock and writes it to data.json, which may fail.
Serialize ==
    /\ scanner.pc # "unspawned"
    /\ channels.serialize
    /\ rwlock = "free"
    /\ channels' = [channels EXCEPT !.serialize = FALSE]
    /\ state_file' \in {state_file,
                        [found |-> TRUE,
                         get_togethers |-> from_get_togethers(get_togethers)]}
    /\ UNCHANGED <<get_togethers, rwlock, scanner, messages, clock, sent>>
    /\ UNCHANGED <<diceVars, imageVars>>

NextEvent ==
    \/ Tick
    \/ \E h \in 1..MaxMsgs :
          Message(h) \/ Insert(h) \/ ReplyCheck(h) \/ ReplyCommand(h) \/ Acknowledge(h)
    \/ CacheReady
    \/ ScanStart
    \/ ScanVisit
    \/ ScanEnd
    \/ Wake
    \/ Serialize

SpecEvent == InitEvent /\ [][NextEvent]_vars

----------------------------------------------------------------------------
(* dice.rs at the full width of u64.  A die of dice.rs has any u64 as its side *)
(* count, so a roll has any u64 as its value, and the sums of get_highest_effect *)
(* and get_highest_total are sums of u64.  A u64 is written here as its four   *)
(* digits in base 2^16, the most significant first.                            *)

\* The base the digits of a u64 are written in: 2^16.
Limb == 65536

U64Zero == <<0, 0, 0, 0>>

\* The u64 of a number below 2^31.
U64Of(n) == <<0, 0, n \div Limb, n % Limb>>

\* The number of a u64 below 2^31.
U64Small(a) == a[3] * Limb + a[4]

\* a < b on u64
U64Less(a, b) == \E i \in 1..4 : a[i] < b[i] /\ \A j \in 1..(i - 1) : a[j] = b[j]

\* a + b: the sum modulo 2^64, and the carry out of it.
U64Add(a, b) ==
    LET s4 == a[4] + b[4]
        s3 == a[3] + b[3] + s4 \div Limb
        s2 == a[2] + b[2] + s3 \div Limb
        s1 == a[1] + b[1] + s2 \div Limb
    IN [carry |-> s1 \div Limb,
        val |-> <<s1 % Limb, s2 % Limb, s3 % Limb, s4 % Limb>>]

\* a * 10 + d for a decimal digit d: the result modulo 2^64, and the carry.
U64Mul10Add(a, d) ==
    LET s4 == a[4] * 10 + d
        s3 == a[3] * 10 + s4 \div Limb
        s2 == a[2] * 10 + s3 \div Limb
        s1 == a[1] * 10 + s2 \div Limb
    IN [carry |-> s1 \div Limb,
        val |-> <<s1 % Limb, s2 % Limb, s3 % Limb, s4 % Limb>>]

\* a divided by 10, digit by digit: the quotient and the remainder.
U64DivMod10(a) ==
    LET c1 == a[1]
        c2 == (c1 % 10) * Limb + a[2]
        c3 == (c2 % 10) * Limb + a[3]
        c4 == (c3 % 10) * Limb + a[4]
    IN [q |-> <<c1 \div 10, c2 \div 10, c3 \div 10, c4 \div 10>>, r |-> c4 % 10]

\* The decimal digits of a u64 that is not 0.
RECURSIVE U64Digits(_)
U64Digits(a) ==
    IF a = U64Zero THEN ""
    ELSE LET dm == U64DivMod10(a) IN U64Digits(dm.q) \o Char("0123456789", dm.r + 1)

\* impl Display for u64
U64ToString(a) == IF a = U64Zero THEN "0" ELSE U64Digits(a)

\* The digits of s from position i on, accumulated on acc; a value past
\* u64::MAX or a character that is no digit is an error.
RECURSIVE ParseDigitsU64(_, _, _)
ParseDigitsU64(s, i, acc) ==
    IF i > Len(s)
    THEN [ok |-> TRUE, val |-> acc]
    ELSE LET d == DigitVal(Char(s, i))
             n == U64Mul10Add(acc, d)
         IN IF d < 0 \/ n.carry > 0 THEN ParseErr ELSE ParseDigitsU64(s, i + 1, n.val)

\* str::parse::<u64> in full: an optional '+', then one or more digits, and an
\* error when the number is above u64::MAX.
parse_u64_full(s) ==
    LET body == IF s # "" /\ Char(s, 1) = "+" THEN SubSeq(s, 2, Len(s)) ELSE s IN
    IF body = "" THEN ParseErr ELSE ParseDigitsU64(body, 1, U64Zero)

\* dice.rs DiceRollRequest::get_die_count, with count and sides as wide as u64.
get_die_count_u64(s) ==
    LET whole == parse_u64_full(trim(s)) IN
    IF whole.ok
    THEN Some(U64Of(1), [sides |-> whole.val])
    ELSE LET idx == find(s, "d") IN
         IF idx = 0 THEN None
         ELSE LET count_s == SubSeq(s, 1, idx - 1)
                  sides_s == SubSeq(s, idx + 1, Len(s))
                  count   == IF trim(count_s) = ""
                             THEN [ok |-> TRUE, val |-> U64Of(1)]
                             ELSE parse_u64_full(trim(count_s))
                  nsides  == parse_u64_full(trim(sides_s)) IN
              IF ~count.ok \/ ~nsides.ok THEN None
              ELSE Some(count.val, [sides |-> nsides.val])

\* dice.rs DiceRollRequest::parse
RECURSIVE ParseLoopU64(_, _, _)
ParseLoopU64(toks, i, dice) ==
    IF i > Len(toks) THEN [ok |-> TRUE, dice |-> dice]
    ELSE IF trim(toks[i]) = "" THEN ParseLoopU64(toks, i + 1, dice)
    ELSE LET r == get_die_count_u64(toks[i]) IN
         IF ~r.some THEN [ok |-> FALSE, err |-> ExpectedMsg(toks[i])]
         ELSE IF U64Less(U64Of(MaxCount), r.count) THEN [ok |-> FALSE, err |-> TooManyMsg]
         ELSE ParseLoopU64(toks, i + 1, PushCopies(dice, U64Small(r.count), r.die))

parse_u64_dice(s) == ParseLoopU64(split_whitespace(s), 1, <<>>)

\* dice.rs Die::roll once gen_range has drawn num.
roll_u64(self, num) == IF num = U64Of(1) THEN Glitch(self) ELSE Value(num, self)

\* The faces of a die the model draws: the lowest two and the highest of
\* 1..=sides.
FacesDrawn(nsides) ==
    {f \in {U64Of(1), U64Of(2), nsides} : f # U64Zero /\ ~U64Less(nsides, f)}

\* The builds of the program: with overflow checks the sum of u64 panics when
\* it passes u64::MAX, without them it wraps around.
Builds == {"debug", "release"}

Panic == [kind |-> "Panic"]

\* Iterator::sum over u64, from the left: in a build that checks, an addition
\* that carries is a panic.
RECURSIVE U64Sum(_, _, _)
U64Sum(q, acc, build) ==
    IF q = <<>> THEN [ok |-> TRUE, val |-> acc]
    ELSE LET s == U64Add(acc, Head(q)) IN
         IF s.carry > 0 /\ build = "debug" THEN [ok |-> FALSE]
         ELSE U64Sum(Tail(q), s.val, build)

\* The Result of a sum, or the panic of the sum.
ResultOfSum(sum, effect) == IF sum.ok THEN Result(sum.val, effect) ELSE Panic

RECURSIVE InsertValU64(_, _)
InsertValU64(q, x) ==
    IF q = <<>> THEN <<x>>
    ELSE IF U64Less(x, Head(q)) THEN <<x>> \o q
    ELSE <<Head(q)>> \o InsertValU64(Tail(q), x)

\* Vec<u64>::sort
RECURSIVE SortValsU64(_)
SortValsU64(q) ==
    IF q = <<>> THEN <<>>
    ELSE InsertValU64(SortValsU64(SubSeq(q, 1, Len(q) - 1)), q[Len(q)])

\* The order of the keys (die.sides, -(value as i128)) of two (value, die).
EffectKeyLess(a, b) ==
    \/ U64Less(a[2].sides, b[2].sides)
    \/ a[2].sides = b[2].sides /\ U64Less(b[1], a[1])

\* dice.rs RollResult::get_highest_effect
get_highest_effect_u64(rolls, build) ==
    LET non_glitches == NonGlitches(rolls)
        n == Len(non_glitches)
        \* max_by_key keeps the last of several equally maximal elements
        effect_idx == CHOOSE i \in 1..n :
                         \A j \in 1..n :
                            \/ EffectKeyLess(non_glitches[j], non_glitches[i])
                            \/ /\ ~EffectKeyLess(non_glitches[i], non_glitches[j])
                               /\ j <= i
    IN
    IF non_glitches = <<>> THEN Botch
    ELSE IF too_few(n)
    THEN ResultOfSum(U64Sum([i \in 1..n |-> non_glitches[i][1]], U64Zero, build),
                     [sides |-> U64Of(4)])
    ELSE LET remaining_vals ==
                 SortValsU64([i \in 1..(n - 1) |->
                                 IF i < effect_idx THEN non_glitches[i][1]
                                 ELSE non_glitches[i + 1][1]])
             top == LastN(remaining_vals, 2)
         IN ResultOfSum(U64Sum(<<top[2], top[1]>>, U64Zero, build),
                        non_glitches[effect_idx][2])

\* The order of the sort keys of get_highest_total: (0, 0) for a Glitch,
\* (value, -(sides as i128)) for a Value.
TotalKeyLess(a, b) ==
    LET va == IF a.kind = "Glitch" THEN U64Zero ELSE a.value
        vb == IF b.kind = "Glitch" THEN U64Zero ELSE b.value
        sa == IF a.kind = "Glitch" THEN U64Zero ELSE a.die.sides
        sb == IF b.kind = "Glitch" THEN U64Zero ELSE b.die.sides
    IN U64Less(va, vb) \/ (va = vb /\ U64Less(sb, sa))

RECURSIVE InsertRollU64(_, _)
InsertRollU64(q, x) ==
    IF q = <<>> THEN <<x>>
    ELSE IF TotalKeyLess(x, Head(q)) THEN <<x>> \o q
    ELSE <<Head(q)>> \o InsertRollU64(Tail(q), x)

\* Vec::sort_by_key, a stable sort.
RECURSIVE sort_by_key_u64(_)
sort_by_key_u64(q) ==
    IF q = <<>> THEN <<>>
    ELSE InsertRollU64(sort_by_key_u64(SubSeq(q, 1, Len(q) - 1)), q[Len(q)])

\* iter().rev(): the elements, last first.
Rev(q) == [i \in 1..Len(q) |-> q[Len(q) + 1 - i]]

\* dice.rs RollResult::get_highest_total: the rolls as it leaves them, and its
\* result.
get_highest_total_u64(rolls, build) ==
    LET sorted == sort_by_key_u64(rolls)
        top    == NonGlitches(Rev(LastN(sorted, 2)))
        total  == U64Sum([i \in 1..Len(top) |-> top[i][1]], U64Zero, build)
        rest   == NonGlitches(ButLastN(sorted, 2))
        effect == IF rest = <<>> THEN [sides |-> U64Of(4)]
                  ELSE LET i == CHOOSE i \in 1..Len(rest) :
                                   \A j \in 1..Len(rest) :
                                      ~U64Less(rest[i][2].sides, rest[j][2].sides)
                       IN rest[i][2]
    IN [rolled_die |-> sorted,
        result |-> IF ~total.ok THEN Panic
                   ELSE IF total.val = U64Zero THEN Botch
                   ELSE Result(total.val, effect)]

\* impl Display for Die of dice.rs
DieDisplayU64(die) == "d" \o U64ToString(die.sides)

\* The match of short_summary of dice.rs; s holds the line written before it.
SummaryMatchU64(s, highest_effect, highest_total) ==
    IF highest_effect = Botch \/ highest_total = Botch THEN InternalError
    ELSE IF highest_effect = highest_total
    THEN s \o "Total: " \o U64ToString(highest_effect.total)
           \o " (effect " \o DieDisplayU64(highest_effect.effect) \o ")"
    ELSE s \o "Best effect: " \o U64ToString(highest_effect.total)
           \o " (effect " \o DieDisplayU64(highest_effect.effect) \o ")\n"
           \o "Best total: " \o U64ToString(highest_total.total)
           \o " (effect " \o DieDisplayU64(highest_total.effect) \o ")\n"

\* dice.rs RollResult::short_summary: the rolls as it leaves them, and its
\* string; it panics when one of its two evaluations does, and
\* get_highest_total is not called when get_highest_effect has panicked.
short_summary_u64(rolls, build) ==
    IF is_botch(rolls) THEN [panics |-> FALSE, rolled_die |-> rolls, s |-> "**BOTCH!**"]
    ELSE LET highest_effect == get_highest_effect_u64(rolls, build)
             ht == get_highest_total_u64(rolls, build)
         IN IF highest_effect = Panic THEN [panics |-> TRUE, rolled_die |-> rolls]
            ELSE IF ht.result = Panic THEN [panics |-> TRUE, rolled_die |-> ht.rolled_die]
            ELSE [panics |-> FALSE, rolled_die |-> ht.rolled_die,
                  s |-> SummaryMatchU64(CountLines(Count(rolls, is_glitch), 0),
                                        highest_effect, ht.result)]

\* One roll of the listing of to_discord_markdown of dice.rs.
RollMarkdownU64(r) ==
    IF r.kind = "Glitch"
    THEN "**1** (d" \o U64ToString(r.die.sides) \o ") "
    ELSE U64ToString(r.value) \o " (d" \o U64ToString(r.die.sides) \o ") "

RECURSIVE ListingU64(_)
ListingU64(q) == IF q = <<>> THEN "" ELSE RollMarkdownU64(Head(q)) \o ListingU64(Tail(q))

\* dice.rs get_response once the dice are rolled: to_discord_markdown, then the
\* choice between resp and the short answer.
RespondU64(dice, rolls, build) ==
    LET sum == short_summary_u64(rolls, build) IN
    IF sum.panics THEN sum
    ELSE LET resp == "Rolling " \o dice \o "\n\nResult: "
                     \o trim(ListingU64(rolls) \o "\n\n" \o sum.s)
         IN IF Len(resp) > MaxResponseLen
            THEN LET again == short_summary_u64(sum.rolled_die, build) IN
                 IF again.panics THEN again
                 ELSE [panics |-> FALSE, rolled_die |-> again.rolled_die,
                       s |-> "Roll " \o dice \o TooLongNote \o again.s]
            ELSE [panics |-> FALSE, rolled_die |-> sum.rolled_die, s |-> resp]

\* The largest u64 and half of it, rounded up.
U64MaxText == "18446744073709551615"

U64HalfText == "9223372036854775808"

\* The expressions given to /roll.
WideExprs ==
    {"", "4 6", "0", "1000001d4",
     "18446744073709551616", "18446744073709551616d4",
     "2d" \o U64HalfText,
     U64MaxText \o " 2d" \o U64HalfText,
     "d6 2d" \o U64MaxText}

InitWide ==
    /\ variant = "dice"
    /\ input \in WideExprs
    /\ pc = "start"
    /\ request = [ok |-> FALSE, err |-> ""]
    /\ next_die = 0
    /\ frames = <<>>
    /\ cur = "none"
    /\ last = NoRoll
    /\ rolled_die = <<>>
    /\ response = ""
    /\ returned = NoCall
    /\ NoImages
    /\ NoEvents

\* get_response, lines 18-24: parse, and return the error if there is one.
WideParse ==
    /\ pc = "start"
    /\ LET r == parse_u64_dice(input) IN
       /\ request' = r
       /\ IF ~r.ok
          THEN /\ pc' = "done"
               /\ response' = r.err
               /\ UNCHANGED <<next_die, cur>>
          ELSE /\ response' = response
               /\ IF VecLen(r.dice) = 0
                  THEN pc' = "rolled" /\ UNCHANGED <<next_die, cur>>
                  ELSE /\ pc' = "rolling"
                       /\ next_die' = 1
                       /\ cur' = VecAt(r.dice, 1)
    /\ UNCHANGED <<variant, input, frames, last, rolled_die, returned>>
    /\ UNCHANGED <<imageVars, eventVars>>

\* dice.rs Die::roll: num = gen_range(1..=self.sides), of a range that is not
\* empty; DiceRollRequest::roll pushes the roll and goes on to the next die.
WideDraw ==
    /\ pc = "rolling"
    /\ \E num \in FacesDrawn(cur.sides) : Pushed(roll_u64(cur, num), <<num>>)
    /\ UNCHANGED <<variant, input, request, response, returned>>
    /\ UNCHANGED <<imageVars, eventVars>>

\* dice.rs Die::roll: gen_range panics on the empty range 1..=0.
WideDrawPanic ==
    /\ pc = "rolling"
    /\ cur.sides = U64Zero
    /\ pc' = "panicked"
    /\ UNCHANGED <<variant, input, request, next_die, frames, cur, last, rolled_die,
                   response, returned>>
    /\ UNCHANGED <<imageVars, eventVars>>

\* The state get_response leaves when it returns r or panics.
ReturnedOrPanicked(r) ==
    IF r.panics
    THEN /\ pc' = "panicked"
         /\ rolled_die' = r.rolled_die
         /\ UNCHANGED response
    ELSE Returned(r)

\* get_response, lines 26-39, in a build that wraps its sums around.
WideRender ==
    /\ pc = "rolled"
    /\ Returned(RespondU64(input, rolled_die, "release"))
    /\ UNCHANGED <<variant, input, request, next_die, frames, cur, last, returned>>
    /\ UNCHANGED <<imageVars, eventVars>>

\* get_response, lines 26-39, in a build that checks its sums: it returns, or a
\* sum that passes u64::MAX panics.
WideRenderChecked ==
    /\ pc = "rolled"
    /\ ReturnedOrPanicked(RespondU64(input, rolled_die, "debug"))
    /\ UNCHANGED <<variant, input, request, next_die, frames, cur, last, returned>>
    /\ UNCHANGED <<imageVars, eventVars>>

NextWide == WideParse \/ WideDraw \/ WideDrawPanic \/ WideRender \/ WideRenderChecked

SpecWide == InitWide /\ [][NextWide]_vars

----------------------------------------------------------------------------
(* What the claims speak of, read off the input text alone. *)

Digits == {"0", "1", "2", "3", "4", "5", "6", "7", "8", "9"}

AllDigits(s) == s # "" /\ \A i \in 1..Len(s) : Char(s, i) \in Digits

\* The bare-integer shape.
BareShape(t) == AllDigits(t)

\* The [count]d<sides> shape.
XdYShape(t) ==
    \E i \in 1..Len(t) :
       /\ Char(t, i) = "d"
       /\ i = 1 \/ AllDigits(SubSeq(t, 1, i - 1))
       /\ AllDigits(SubSeq(t, i + 1, Len(t)))

Shaped(t) == BareShape(t) \/ XdYShape(t)

\* The number a string of digits writes.
RECURSIVE DecVal(_)
DecVal(s) ==
    IF s = "" THEN 0
    ELSE DecVal(SubSeq(s, 1, Len(s) - 1)) * 10
         + (CHOOSE n \in 0..9 : ToString(n) = Char(s, Len(s)))

PosOfD(t) == CHOOSE i \in 1..Len(t) : Char(t, i) = "d"

\* The count a shaped token asks for.
AskedCount(t) ==
    IF BareShape(t) \/ PosOfD(t) = 1 THEN 1 ELSE DecVal(SubSeq(t, 1, PosOfD(t) - 1))

\* The side count a shaped token asks for.
AskedSides(t) ==
    IF BareShape(t) THEN DecVal(t) ELSE DecVal(SubSeq(t, PosOfD(t) + 1, Len(t)))

\* The die with n sides, as each file writes it.
DieWithSides(v, n) == IF v = "dice" THEN [sides |-> n] ELSE "D" \o ToString(n)

\* The side counts of the five dice d4, d6, d8, d10, d12.
FiveSides == {4, 6, 8, 10, 12}

\* A token that asks for at most 1,000,000 of one of the five dice.
WellFormed(t) == Shaped(t) /\ AskedSides(t) \in FiveSides /\ AskedCount(t) <= 1000000

\* The whitespace-separated tokens of the input.
InputTokens == split_whitespace(input)

\* The dice the tokens ask for, in order, as a vector.
RECURSIVE AskedDice(_, _)
AskedDice(v, toks) ==
    IF toks = <<>> THEN <<>>
    ELSE LET rest == AskedDice(v, Tail(toks))
             d    == DieWithSides(v, AskedSides(Head(toks)))
             c    == AskedCount(Head(toks)) IN
         IF c = 0 THEN rest
         ELSE IF rest # <<>> /\ rest[1].die = d
         THEN <<[die |-> d, n |-> c + rest[1].n]>> \o Tail(rest)
         ELSE <<[die |-> d, n |-> c]>> \o rest

RECURSIVE SumCounts(_)
SumCounts(toks) ==
    IF toks = <<>> THEN 0 ELSE AskedCount(Head(toks)) + SumCounts(Tail(toks))

\* parse has returned and get_response has done nothing since.
JustParsed == pc \in {"done", "rolling", "unrolled", "rolled"} /\ last = NoRoll /\ frames = <<>>

\* The message names token t.
Names(msg, t) ==
    /\ Len(msg) >= Len(t) + 10
    /\ SubSeq(msg, 1, Len(t) + 10) = "Expected " \o t \o " "

----------------------------------------------------------------------------
(* The claims. *)

\* C1: on an expression whose tokens are all well-formed, parse returns, for each
\* token in input order, count copies of that token's die, where the count is
\* the number before 'd', 1 when nothing precedes 'd' and 1 for a bare integer;
\* the length of the list is the sum of the counts.
C1_OneDiePerRequestedDie ==
    (JustParsed /\ \A i \in 1..Len(InputTokens) : WellFormed(InputTokens[i]))
    => /\ request.ok
       /\ request.dice = AskedDice(variant, InputTokens)
       /\ VecLen(request.dice) = SumCounts(InputTokens)

\* Two tokens with different counts were parsed into four dice.
C1_Witness ==
    /\ JustParsed
    /\ input = "3d6 4"
    /\ request.ok
    /\ VecLen(request.dice) = 4

FirstMisshaped(i) ==
    /\ i \in 1..Len(InputTokens)
    /\ ~Shaped(InputTokens[i])
    /\ \A j \in 1..(i - 1) : Shaped(InputTokens[j])

\* No die has been rolled.
NothingRolled == rolled_die = <<>> /\ last = NoRoll /\ frames = <<>> /\ pc # "rolling"

Accepts(v, t) == Shaped(t) /\ AskedCount(t) <= 1000000 /\ (v = "dice" \/ AskedSides(t) \in FiveSides)

Faces(v, die) ==
    IF v = "dice" THEN die.sides ELSE CHOOSE n \in FiveSides : DieWithSides(v, n) = die

\* The dice of the vector.
DiceIn(runs) == {runs[i].die : i \in 1..Len(runs)}

\* C4 as claimed: in dice.rs every die of a successful parse has a side count in
\* {4,6,8,10,12}, and a token with any other side count makes parse fail.
C4_Original ==
    (variant = "dice" /\ JustParsed)
    => /\ request.ok => \A d \in DiceIn(request.dice) : d.sides \in FiveSides
       /\ (\E i \in 1..Len(InputTokens) :
              Shaped(InputTokens[i]) /\ AskedSides(InputTokens[i]) \notin FiveSides)
          => ~request.ok

\* C5 as claimed: in sparkle.rs every die of a successful parse has a side count
\* in {4,6,8,10}, and a token asking for any other side count, 12 included,
\* makes parse fail.
C5_Original ==
    (variant = "sparkle" /\ JustParsed)
    => /\ request.ok => \A d \in DiceIn(request.dice) : sides(d) \in {4, 6, 8, 10}
       /\ (\E i \in 1..Len(InputTokens) :
              Shaped(InputTokens[i]) /\ AskedSides(InputTokens[i]) \notin {4, 6, 8, 10})
          => ~request.ok

\* C5 as amended: in sparkle.rs every die of a successful parse is one of D4, D6,
\* D8, D10, D12, asked for by a token with side count 4, 6, 8, 10 or 12; a token
\* asking for any other side count makes parse fail.
C5_ShimmerDiceAreTheFive ==
    (variant = "sparkle" /\ JustParsed)
    => /\ request.ok
          => /\ \A d \in DiceIn(request.dice) : d \in DieSet
             /\ \A i \in 1..Len(InputTokens) :
                   Shaped(InputTokens[i]) /\ AskedSides(InputTokens[i]) \in FiveSides
       /\ (\E i \in 1..Len(InputTokens) :
              Shaped(InputTokens[i]) /\ AskedSides(InputTokens[i]) \notin FiveSides)
          => ~request.ok

\* A token asking for 12 sides was parsed into a D12.
C5_Witness ==
    /\ variant = "sparkle"
    /\ JustParsed
    /\ input = "12"
    /\ request.ok
    /\ request.dice = <<[die |-> "D12", n |-> 1]>>

\* C6 as claimed: once parse has succeeded, rolling, evaluating and rendering
\* never fail or abort.
C6_Original == request.ok => pc # "panicked"

\* C7 as claimed: the first draw of a roll of one of the five dice, with s sides,
\* may be any face from 1 to s and no other; a draw of 1 gives Glitch(die), and
\* every Value(n, die) has 2 <= n <= s.
C7_Original ==
    /\ (pc = "rolling" /\ frames = <<>> /\ Faces(variant, cur) \in FiveSides)
       => DrawSet(variant, cur) = 1..Faces(variant, cur)
    /\ (last # NoRoll /\ Faces(variant, last.die) \in FiveSides)
       => /\ last.draws[1] = 1 => last.roll = Glitch(last.die)
          /\ last.roll.kind = "Value"
             => last.roll.value >= 2 /\ last.roll.value <= Faces(variant, last.die)

\* The die the k-th call of a cascade that starts on die draws for.
RECURSIVE DieOfCall(_, _)
DieOfCall(die, k) == IF k = 1 THEN die ELSE DieOfCall(bump_up(die), k - 1)

\* C8: in sparkle.rs, whenever a call of Die::roll on a die other than D12 draws
\* the maximum face f first, it returns a Shimmer of value >= f or Value(f, die),
\* and it returns Value(f, die) when the re-roll on the next die is a Glitch.
C8_MaxFaceNeverLosesValue ==
    (variant = "sparkle" /\ last # NoRoll)
    => \A k \in 1..Len(last.draws) :
          LET die == DieOfCall(last.die, k)
              f   == last.draws[k]
              res == roll(die, SubSeq(last.draws, k, Len(last.draws)))
          IN (die # "D12" /\ f = Faces(variant, die))
             => /\ \/ res.kind = "Shimmer" /\ res.value >= f
                   \/ res = Value(f, die)
                /\ (k < Len(last.draws) /\ last.draws[k + 1] = 1) => res = Value(f, die)
                /\ k = 1 => last.roll = res

\* A d4 drew 4, the d6 drew 6 and the d8 glitched: the d6 stands at 6 and the d4
\* has shimmered to it.
C8_Witness ==
    /\ variant = "sparkle"
    /\ last # NoRoll
    /\ last.die = "D4"
    /\ last.draws = <<4, 6, 1>>
    /\ last.roll = Shimmer("D4", "D6", 1, 6)

\* C9: in sparkle.rs a roll of D12 never cascades: whatever it draws it returns
\* Glitch(D12) or Value(n, D12), and no call on D12 waits for a further draw.
C9_BiggestDieNeverCascades ==
    variant = "sparkle"
    => /\ \A i \in 1..Len(frames) : frames[i].self # "D12"
       /\ (last # NoRoll /\ last.die = "D12")
          => /\ Len(last.draws) = 1
             /\ last.roll \in {Glitch("D12"), Value(last.draws[1], "D12")}
             /\ last.draws[1] = 1 <=> last.roll.kind = "Glitch"

\* A D12 drew its highest face and returned it as a plain value.
C9_Witness ==
    /\ variant = "sparkle"
    /\ last # NoRoll
    /\ last.die = "D12"
    /\ last.draws = <<10>>
    /\ last.roll = Value(10, "D12")

\* The rolls of a result that are no glitch, by position.
NonGlitchAt(rolls) == {i \in 1..Len(rolls) : rolls[i].kind # "Glitch"}

\* The value and the die a roll counts with: a Shimmer counts with its ultimate die.
ValueOf(r) == r.value

DieOf(r) == IF r.kind = "Shimmer" THEN r.ultimate ELSE r.die

MaxOf(S) == CHOOSE m \in S : \A x \in S : x <= m

\* The sum of the two largest values among the rolls at the positions in I.
TopTwo(rolls, I) ==
    MaxOf({ValueOf(rolls[p[1]]) + ValueOf(rolls[p[2]]) : p \in {q \in I \X I : q[1] # q[2]}})

\* C10 as claimed: given at least 3 non-glitch rolls, get_highest_effect returns
\* Result{total, effect} where effect is the die of the roll with the largest
\* side count, ties on side count broken towards the smallest value, and total
\* is the sum of the two largest values among the other non-glitch rolls.
C10_Original ==
    (variant = "sparkle" /\ returned.call = "get_highest_effect"
       /\ Cardinality(NonGlitchAt(returned.on)) >= 3)
    => LET rolls == returned.on
           I     == NonGlitchAt(rolls)
           e     == CHOOSE e \in I :
                       \A j \in I :
                          \/ Faces(variant, DieOf(rolls[j])) < Faces(variant, DieOf(rolls[e]))
                          \/ /\ Faces(variant, DieOf(rolls[j])) = Faces(variant, DieOf(rolls[e]))
                             /\ ValueOf(rolls[e]) <= ValueOf(rolls[j])
       IN returned.value = Result(TopTwo(rolls, I \ {e}), DieOf(rolls[e]))

\* The sum of the values of the rolls at the positions in I.
RECURSIVE SumAt(_, _)
SumAt(rolls, I) ==
    IF I = {} THEN 0
    ELSE LET i == CHOOSE i \in I : TRUE IN ValueOf(rolls[i]) + SumAt(rolls, I \ {i})

C12_TotalIsTopTwoNonGlitch ==
    returned.call = "get_highest_total"
    => LET I == NonGlitchAt(returned.on) IN
       IF I = {} THEN returned.value = Botch
       ELSE /\ returned.value.kind = "Result"
            /\ returned.value.total =
                  IF Cardinality(I) = 1 THEN SumAt(returned.on, I)
                  ELSE TopTwo(returned.on, I)

\* One value between two glitches: the total is that value alone.
C12_Witness ==
    /\ returned.call = "get_highest_total"
    /\ Len(returned.on) = 3
    /\ returned.on[1].kind = "Glitch"
    /\ returned.on[2].kind = "Value" /\ returned.on[2].value = 3
    /\ returned.on[3].kind = "Glitch"
    /\ returned.value.kind = "Result"
    /\ returned.value.total = 3

\* The rolls q, each as often as it stands in q.
BagOf(q) == [r \in {q[i] : i \in 1..Len(q)} |-> Cardinality({i \in 1..Len(q) : q[i] = r})]

\* The rolls get_highest_total has not consumed for the total: it leaves the
\* vector sorted, the two consumed rolls last.
Remaining(sorted) == {i \in NonGlitchAt(sorted) : i <= Len(sorted) - 2}

C14_AllGlitchesIsBotch ==
    (returned.call = "short_summary" /\ NonGlitchAt(returned.on) = {})
    => returned.value = "**BOTCH!**"

\* Two glitches were summarised.
C14_Witness ==
    /\ returned.call = "short_summary"
    /\ Len(returned.on) = 2
    /\ \A i \in 1..2 : returned.on[i].kind = "Glitch"
    /\ returned.value = "**BOTCH!**"

\* The orderings of n positions.
Orderings(n) == {p \in [1..n -> 1..n] : \A i, j \in 1..n : p[i] = p[j] => i = j}

\* The rolls q in the order p.
Reordered(q, p) == [i \in 1..Len(q) |-> q[p[i]]]

\* What the method named call returns on the rolls q.
ValueOfCall(call, q) ==
    CASE call = "get_highest_effect" -> get_highest_effect(variant, q)
      [] call = "get_highest_total"  -> get_highest_total(variant, q).result
      [] call = "short_summary"      -> short_summary(variant, q).s

\* C15 as claimed: short_summary, the best-effect result and the best-total
\* result depend only on the multiset of rolls: on every ordering of the same
\* rolls each method returns what it returned on the ordering it was called on.
C15_Original ==
    returned.call # "none"
    => \A p \in Orderings(Len(returned.on)) :
          ValueOfCall(returned.call, Reordered(returned.on, p)) = returned.value

\* The die a roll was made for: a Shimmer started on its initial die.
InitialDie(r) == IF r.kind = "Shimmer" THEN r.initial ELSE r.die

\* The rolls stand in parse order: the i-th roll was made for the i-th die.
InParseOrder(rolls) ==
    /\ Len(rolls) = VecLen(request.dice)
    /\ \A i \in 1..Len(rolls) : InitialDie(rolls[i]) = VecAt(request.dice, i)

\* The full response: the echoed expression, the listing of the rolls, a blank
\* line and the short summary, without whitespace at its end.
FullResponse(rolls) ==
    "Rolling " \o input \o "\n\nResult: "
    \o trim(Listing(variant, rolls) \o "\n\n" \o short_summary(variant, rolls).s)

\* The short response: the note and the short summary, without any listing.
ShortResponse(rolls) ==
    "Roll " \o input \o TooLongNote \o short_summary(variant, rolls).s

\* C16: when get_response has rolled the dice, it returns the full response
\* (echoed expression, listing in parse order, blank line, short summary)
\* exactly when that text is at most 1950 bytes long, and otherwise the note
\* followed by the short summary only.
C16_FullResponseUpToLimit ==
    [][(pc = "rolled" /\ pc' = "done")
       => /\ InParseOrder(rolled_die)
          /\ Len(FullResponse(rolled_die)) <= 1950 <=> response' = FullResponse(rolled_die)
          /\ Len(FullResponse(rolled_die)) > 1950 <=> response' = ShortResponse(rolled_die)]_vars

\* Two dice were rolled and the full response, exactly 1950 bytes long, was
\* returned.
C16_Witness ==
    /\ pc = "done"
    /\ request.ok
    /\ Len(rolled_die) = 2
    /\ Len(response) = 1950
    /\ SubSeq(response, 1, 8) = "Rolling "

\* The largest of the numbers of a sequence of draws.
LargestDrawn(draws) == MaxOf({draws[i] : i \in 1..Len(draws)})

\* C19: in sparkle.rs the value Die::roll reports is the largest face drawn in
\* the whole chain: a Shimmer's value, and a plain Value's value also when the
\* cascade was discarded, is the maximum of the triggering face and every
\* number drawn after it.
C19_ValueIsLargestDrawn ==
    (variant = "sparkle" /\ last # NoRoll /\ last.roll.kind # "Glitch")
    => last.roll.value = LargestDrawn(last.draws)

\* A d4 drew 4 and the d6 drew 5: the shimmer reports the 5.
C19_Witness ==
    /\ variant = "sparkle"
    /\ last # NoRoll
    /\ last.die = "D4"
    /\ last.draws = <<4, 5>>
    /\ last.roll = Shimmer("D4", "D6", 1, 5)

\* C20 as claimed: in every Shimmer returned by Die::roll, ultimate is the die
\* of the last draw made, and shimmer_count is the number of max-face triggers
\* that fired, one for every draw but the last.
C20_Original ==
    (variant = "sparkle" /\ last # NoRoll /\ last.roll.kind = "Shimmer")
    => /\ last.roll.ultimate = DieOfCall(last.die, Len(last.draws))
       /\ last.roll.shimmer_count = Len(last.draws) - 1

\* The last draw of a cascade is kept when it is no glitch and not below the
\* max face that triggered it.
LastKept(draws) ==
    LET n == Len(draws) IN n >= 2 /\ draws[n] # 1 /\ draws[n] >= draws[n - 1]

\* The number of draws up to the last one that is kept.
KeptDraws(draws) == IF LastKept(draws) THEN Len(draws) ELSE Len(draws) - 1

\* C20 as amended: a roll is a Shimmer exactly when a re-roll was kept; its
\* ultimate is then the die of the last draw that was kept (the last die drawn,
\* or the die before it when the last draw was a glitch or below the face that
\* triggered it), its initial the die rolled, and shimmer_count the number of
\* steps from initial up to ultimate.
C20_ShimmerStopsAtLastKeptDraw ==
    (variant = "sparkle" /\ last # NoRoll)
    => LET m == KeptDraws(last.draws) IN
       /\ last.roll.kind = "Shimmer" <=> m >= 2
       /\ last.roll.kind = "Shimmer"
          => /\ last.roll.initial = last.die
             /\ last.roll.ultimate = DieOfCall(last.die, m)
             /\ last.roll.shimmer_count = m - 1

\* A d4 drew 4, the d6 drew 6, the d8 drew 8 and the d10 drew 2: the d10 is
\* discarded and the d4 has shimmered twice, up to the d8.
C20_Witness ==
    /\ variant = "sparkle"
    /\ last # NoRoll
    /\ last.die = "D4"
    /\ last.draws = <<4, 6, 8, 2>>
    /\ last.roll = Shimmer("D4", "D8", 2, 8)

\* The invocation c leaves the critical section of debit_for_request's check in
\* this step.
Decides(c) == calls[c].pc = "locked" /\ calls'[c].pc # "locked"

\* The user has an account and its credit is negative.
Overdrawn(map, user) == user \in DOMAIN map /\ map[user].credit < 0

\* C17: an account is overdrafted exactly when its credit is negative, credit 0
\* included among the permitted ones: debit_for_request returns No exactly when
\* the user's account has a negative credit before the call, and a refused
\* request leaves every account as it was and writes nothing to data.json.
C17_RefusedExactlyWhenOverdrawn ==
    [][\A c \in DOMAIN calls :
          /\ (calls'[c].result = "No" /\ calls[c].result # "No")
             <=> (Decides(c) /\ Overdrawn(accounts, calls[c].user))
          /\ (calls'[c].result = "No" /\ calls[c].result # "No")
             => /\ accounts' = accounts
                /\ data_json' = data_json
                /\ calls'[c].pc = "done"
          /\ calls[c].result = "No" => calls'[c].result = "No"]_vars

\* A user with credit 0 was served one square standard image, which took the
\* credit to -4000, and was refused the next request; the file holds the
\* account as the first request left it.
C17_Witness ==
    /\ calls # <<>>
    /\ calls[1].pc = "done" /\ calls[1].user = 1 /\ calls[1].result = "Yes"
    /\ calls[2].pc = "done" /\ calls[2].user = 1 /\ calls[2].result = "No"
    /\ accounts[1].credit = -4000
    /\ accounts[1].total_cost = 4000
    /\ accounts[1].images = 1
    /\ data_json = [valid |-> TRUE, accounts |-> accounts]

\* The price in cents of one image of a shape and a quality.
PriceInCents(dimensions, quality) ==
    CASE dimensions = "Square" /\ quality = "Standard"        -> 4
      [] dimensions = "Square" /\ quality = "HD"              -> 8
      [] dimensions \in {"Wide", "Tall"} /\ quality = "Standard" -> 8
      [] dimensions \in {"Wide", "Tall"} /\ quality = "HD"       -> 12

\* C18: ImageRequest::cost is base * num * 1000 millicents for every num from 1
\* to 10, with base 4 cents for a square standard image, 8 for a square HD or
\* a wide or tall standard one, and 12 for a wide or tall HD one.
C18_CostIsBaseTimesNum ==
    priced.priced
    => /\ priced.req.num \in 1..10
       /\ priced.cost.millicents
             = PriceInCents(priced.req.dimensions, priced.req.quality)
               * priced.req.num * 1000

\* One wide HD image was priced at 12000 millicents.
C18_Witness ==
    /\ priced.priced
    /\ priced.req.num = 1
    /\ priced.req.dimensions = "Wide"
    /\ priced.req.quality = "HD"
    /\ priced.cost = [millicents |-> 12000]

\* The rolls get_highest_total has consumed for the total: the non-glitch rolls
\* among the last two of the sorted vector.
Consumed(sorted) == {i \in NonGlitchAt(sorted) : i > Len(sorted) - 2}

\* C21 as claimed: when two non-glitch rolls have the same value and only one of
\* them is consumed for the total, the consumed one is the roll on the larger
\* die and the roll on the smaller die remains.
C21_Original ==
    returned.call = "get_highest_total"
    => \A i \in Remaining(rolled_die), j \in Consumed(rolled_die) :
          ValueOf(rolled_die[i]) = ValueOf(rolled_die[j])
          => Faces(variant, DieOf(rolled_die[j])) >= Faces(variant, DieOf(rolled_die[i]))

\* C21 as amended: when two non-glitch rolls have the same value and only one of
\* them is consumed for the total, the consumed one is the roll on the smaller
\* die (the key holds the negated side count) and the roll on the larger die
\* remains; in sparkle.rs a D10 and a D12 of equal value rank equal, so that a
\* D12 may be consumed while a D10 remains.
C21_SmallerDieIsConsumed ==
    returned.call = "get_highest_total"
    => \A i \in Remaining(rolled_die), j \in Consumed(rolled_die) :
          ValueOf(rolled_die[i]) = ValueOf(rolled_die[j])
          => \/ Faces(variant, DieOf(rolled_die[j])) <= Faces(variant, DieOf(rolled_die[i]))
             \/ /\ variant = "sparkle"
                /\ DieOf(rolled_die[j]) = "D12"
                /\ DieOf(rolled_die[i]) = "D10"

\* Three rolls of 3, on a d4, a d8 and a d6: the d4 and the d6 were consumed
\* and the d8 remains as the effect die.
C21_Witness ==
    /\ returned.call = "get_highest_total"
    /\ Len(returned.on) = 3
    /\ \A i \in 1..3 : returned.on[i].kind = "Value" /\ returned.on[i].value = 3
    /\ Faces(variant, returned.on[1].die) = 4
    /\ Faces(variant, returned.on[2].die) = 8
    /\ Faces(variant, returned.on[3].die) = 6
    /\ returned.value = Result(6, DieWithSides(variant, 8))

\* The methods of RollResult that evaluate the rolls.
Methods == {"get_highest_effect", "get_highest_total", "short_summary"}

\* C23: evaluation is idempotent although get_highest_total sorts the rolls in
\* place: whatever method is called, every method returns on the rolls as the
\* call leaves them what it returns on the rolls as the call found them; so
\* get_highest_effect, get_highest_total and short_summary return the same
\* before and after any number of calls.
C23_EvaluationIsIdempotent ==
    [][/\ \A m \in Methods : ValueOfCall(m, rolled_die') = ValueOfCall(m, rolled_die)
       /\ returned'.call \in Methods
          => returned'.value = ValueOfCall(returned'.call, returned'.on)]_vars

\* get_highest_total moved the rolls: a d4 stood before a d12 and a d10 of the
\* same value and stands behind them afterwards.
C23_Witness ==
    /\ variant = "sparkle"
    /\ returned.call = "get_highest_total"
    /\ returned.on = <<Value(3, "D4"), Value(3, "D12"), Value(3, "D10")>>
    /\ rolled_die = <<Value(3, "D12"), Value(3, "D10"), Value(3, "D4")>>
    /\ returned.value = Result(6, "D12")

\* C25 as claimed: in sparkle.rs, for every roll set with at least one non-glitch
\* roll, the effect die of the best-effect interpretation is at least as large
\* as the effect die of the best-total interpretation.
C25_Original ==
    (variant = "sparkle" /\ pc = "eval" /\ NonGlitchAt(rolled_die) # {})
    => Faces(variant, get_highest_effect(variant, rolled_die).effect)
          >= Faces(variant, get_highest_total(variant, rolled_die).result.effect)

\* C27: in every Shimmer produced by sparkle.rs Die::roll, ultimate is strictly
\* larger than initial in the order D4 < D6 < D8 < D10 < D12, shimmer_count is
\* the number of steps from initial up to ultimate, and 1 <= shimmer_count <= 4.
C27_ShimmerClimbsByItsCount ==
    (variant = "sparkle" /\ last # NoRoll /\ last.roll.kind = "Shimmer")
    => /\ Ord(last.roll.ultimate) > Ord(last.roll.initial)
       /\ last.roll.shimmer_count = Ord(last.roll.ultimate) - Ord(last.roll.initial)
       /\ last.roll.shimmer_count \in 1..4

\* A d4 that shimmered all the way: 4, 6, 8, 10 and at last 10 on the d12.
C27_Witness ==
    /\ variant = "sparkle"
    /\ last # NoRoll
    /\ last.die = "D4"
    /\ last.draws = <<4, 6, 8, 10, 10>>
    /\ last.roll = Shimmer("D4", "D12", 4, 10)

\* C28: an expression that is empty or holds only whitespace parses to zero
\* dice, and the empty roll is reported as a botch: the summary at the end of
\* the response is exactly "**BOTCH!**", although no die glitched.
C28_EmptyExpressionIsBotch ==
    (pc # "start" /\ InputTokens = <<>>)
    => /\ request.ok
       /\ VecLen(request.dice) = 0
       /\ rolled_die = <<>>
       /\ pc \in {"rolled", "done"}
       /\ pc = "done" => response = "Rolling " \o input \o "\n\nResult: **BOTCH!**"

\* A single space was rolled by /shimmer.
C28_Witness ==
    /\ variant = "sparkle"
    /\ input = " "
    /\ pc = "done"
    /\ request.ok /\ request.dice = <<>>
    /\ response = "Rolling  \n\nResult: **BOTCH!**"

\* The users whose account, if they have one, was created by debit_for_request:
\* those data.json never holds an account for when the bot starts.
NewUsers == Users \ UNION {DOMAIN m : m \in LoadedMaps}

\* The sum of num over the requests of the invocations in S.
RECURSIVE SumOfNum(_)
SumOfNum(S) ==
    IF S = {} THEN 0
    ELSE LET c == CHOOSE c \in S : TRUE IN calls[c].req.num + SumOfNum(S \ {c})

\* The requests of a user that debit_for_request answered with Yes.
Permitted(user) == {c \in DOMAIN calls : calls[c].user = user /\ calls[c].result = "Yes"}

\* The requests of a user that passed the balance check: the account is
\* debited, and the call is writing the file or has returned Yes or an error.
PassedCheck(user) ==
    {c \in DOMAIN calls : /\ calls[c].user = user
                          /\ calls[c].pc = "write" \/ calls[c].result \in {"Yes", "Err"}}

\* No invocation of /gen is under way.
Quiet == \A c \in DOMAIN calls : calls[c].pc \in {"idle", "done"}

\* C29 as claimed: for an account created by debit_for_request, once the
\* concurrent calls have returned, credit + total_cost is 2,000,000 and images
\* is the sum of num over the requests that were permitted.
C29_Original ==
    Quiet
    => \A u \in NewUsers \cap DOMAIN accounts :
          /\ accounts[u].credit + accounts[u].total_cost = 2000000
          /\ accounts[u].images = SumOfNum(Permitted(u))

\* C29 as amended: for an account created by debit_for_request, at every point
\* of every interleaving, credit + total_cost is 2,000,000, total_cost is the
\* sum of the prices and images the sum of num over the requests that passed
\* the balance check, each counted once: those answered Yes and those whose
\* write of data.json failed, which stay debited although the call returned an
\* error.  At most one call is between the lock and its return.
C29_EveryDebitCountsOnce ==
    /\ \A u \in NewUsers \cap DOMAIN accounts :
          /\ accounts[u].credit + accounts[u].total_cost = 2000000
          /\ accounts[u].images = SumOfNum(PassedCheck(u))
          /\ accounts[u].total_cost
                = 1000 * SumSeq([c \in 1..MaxCalls |->
                                    IF c \in PassedCheck(u)
                                    THEN PriceInCents(calls[c].req.dimensions,
                                                      calls[c].req.quality)
                                         * calls[c].req.num
                                    ELSE 0])
    /\ Cardinality({c \in DOMAIN calls : calls[c].pc \in {"locked", "write"}}) <= 1
    /\ \A c \in DOMAIN calls : calls[c].pc \in {"locked", "write"} <=> mutex = c

\* Two requests of a new user, for four images and for one, ran one after the
\* other's lock: the first was answered Yes while the second waited, and the
\* second is debited and about to write.
C29_Witness ==
    /\ calls # <<>>
    /\ calls[1].user = 2 /\ calls[1].result = "Yes" /\ calls[1].req.num = 4
    /\ calls[2].user = 2 /\ calls[2].pc = "write" /\ calls[2].req.num = 1
    /\ accounts[2].images = 5
    /\ accounts[2].credit + accounts[2].total_cost = 2000000
    /\ data_json.valid /\ data_json.accounts[2].images = 4

\* "It's time!" is sent for the get-together m in this step.
Announces(m) == sent'[m] > sent[m]

\* Message h ends its reply command in this step.
EndsCommand(h) == messages[h].pc = "command" /\ messages'[h].pc # "command"

\* C30: while the bot runs, "It's time!" is sent at most once for each
\* get-together.  It is sent by a scan that holds the write lock, for a
\* get-together whose time has passed, and that scan marks it notified and
\* removes it before it releases the lock: outside a scan the map holds no
\* notified and no announced get-together.  A reply command to an announced
\* get-together finds no entry: it returns None and changes nothing.
C30_AnnouncedAtMostOnce ==
    /\ [](/\ \A m \in DOMAIN sent : sent[m] <= 1
          /\ \A m \in DOMAIN get_togethers :
                IF rwlock = "scan"
                THEN sent[m] = 1 => /\ get_togethers[m].notified
                                    /\ m \in scanner.to_remove
                ELSE ~get_togethers[m].notified /\ sent[m] = 0)
    /\ [][/\ \A m \in DOMAIN sent :
                Announces(m) => /\ rwlock = "scan" /\ rwlock' = "scan"
                                /\ get_togethers[m].time.some
                                /\ get_togethers[m].time.val < clock
                                /\ get_togethers'[m].notified
          /\ \A h \in DOMAIN messages :
                (EndsCommand(h) /\ sent[messages[h].reference.val] = 1)
                => /\ messages'[h] = DoneMsg
                   /\ UNCHANGED <<get_togethers, channels, sent>>]_vars

\* The get-together 7 was loaded with its time set.  A reply to it passed the
\* first look-up, then a scan announced the get-together and removed it, and the
\* reply is about to run its command on a map that no longer holds it.
C30_Witness ==
    /\ messages # <<>>
    /\ sent[7] = 1
    /\ 7 \notin DOMAIN get_togethers
    /\ rwlock = "free"
    /\ scanner.pc = "sleeping"
    /\ messages[1].pc = "command"
    /\ messages[1].reference = SomeOf(7)

\* C26: in sparkle.rs, on a roll set with 1 or 2 non-glitch rolls and any number
\* of glitches, get_highest_effect and get_highest_total return the same
\* Result: the sum of the non-glitch values as total and d4 as effect; and
\* short_summary prints, after its lines counting glitches and shimmers, the
\* single line "Total: <sum> (effect d4)" and no "Best effect" or "Best total"
\* line.
C26_FewRollsPrintOneTotal ==
    (variant = "sparkle" /\ returned.call # "none"
       /\ Cardinality(NonGlitchAt(returned.on)) \in {1, 2})
    => LET rolls == returned.on
           sum   == SumAt(rolls, NonGlitchAt(rolls))
       IN CASE returned.call = "get_highest_effect" ->
                    /\ returned.value = Result(sum, "D4")
                    /\ get_highest_total(variant, rolls).result = returned.value
            [] returned.call = "get_highest_total" ->
                    /\ returned.value = Result(sum, "D4")
                    /\ get_highest_effect(variant, returned.on) = returned.value
            [] returned.call = "short_summary" ->
                    returned.value =
                        CountLines(Count(rolls, is_glitch), Count(rolls, is_shimmer))
                        \o "Total: " \o ToString(sum) \o " (effect d4)"

\* short_summary was called on a glitch, a d12 that rolled 3 and a d4 that
\* shimmered up to d8 with a 6: one line for the total of 9, with a d4.
C26_Witness ==
    /\ variant = "sparkle"
    /\ returned.call = "short_summary"
    /\ returned.on = <<Glitch("D12"), Value(3, "D12"), Shimmer("D4", "D8", 2, 6)>>
    /\ returned.value = "1 Glitches!\n1 Shimmers!\nTotal: 9 (effect d4)"

\* The string s ends with the string t.
EndsWith(s, t) == Len(s) >= Len(t) /\ SubSeq(s, Len(s) - Len(t) + 1, Len(s)) = t

\* C22 as claimed: on every roll result produced by rolling parsed dice,
\* get_highest_effect and get_highest_total each return Botch exactly when
\* every roll is a Glitch, and the response never carries the string
\* "Internal error, disagreement on botch??".
C22_Original ==
    (variant = "dice" /\ request.ok /\ pc \in {"rolled", "done"})
    => /\ \A build \in Builds :
             /\ get_highest_effect_u64(rolled_die, build) = Botch <=> is_botch(rolled_die)
             /\ get_highest_total_u64(rolled_die, build).result = Botch
                   <=> is_botch(rolled_die)
       /\ pc = "done" => ~EndsWith(response, InternalError)

\* C24 as claimed: on every roll set with at least one non-glitch roll, the
\* total of the best-total interpretation is greater than or equal to the total
\* of the best-effect interpretation.
C24_Original ==
    (variant = "dice" /\ request.ok /\ pc \in {"rolled", "done"} /\ ~is_botch(rolled_die))
    => \A build \in Builds :
          LET highest_effect == get_highest_effect_u64(rolled_die, build)
              highest_total  == get_highest_total_u64(rolled_die, build).result
          IN (highest_effect.kind = "Result" /\ highest_total.kind = "Result")
             => ~U64Less(highest_total.total, highest_effect.total)

====
